---- MODULE Spec2Model ----
(***************************************************************************)
(* terrasync scan pipeline: the concurrent directory walker (ListAll), the *)
(* predicate filter evaluated inline during the walk, the full-scan        *)
(* dispatcher (ProcessFilesForFullScan) with its catalog writer and Sink   *)
(* coordinator, and the incremental diff engine                            *)
(* (ProcessFilesForIncrementalScan) with its bloom pre-filter, temp-table  *)
(* loader and the two catalog joins.  Stats, the filter compiler with its  *)
(* parsers, and the scan command run again on one job id are specified on  *)
(* their own (SpecStats, SpecFilter, SpecParse, SpecJob).                  *)
(*                                                                         *)
(* Strings are sequences of one-character strings, a key is the sequence   *)
(* of the names on the path from the scan root ("/a/x" is <<"a">>,<<"x">>).*)
(***************************************************************************)
EXTENDS Integers, Sequences, FiniteSets, TLC

\* ------------------------------------------------------------------ bounds
\* capacity of the directory queue (1024 in the source, scaled)
listDirQueueLen == 1
\* capacity of the result queue (8192 in the source, scaled)
listQueueLen == 2
\* largest worker count N explored
MaxConcurrency == 2
\* largest depth cap D explored (0 = unlimited)
MaxDepth == 2
\* clock readings time.Now() may return during one evaluation
MaxClock == 1
\* longest walker stream fed to the dispatcher
MaxInput == 3
\* largest database.batch_size explored (0 = key absent from the configuration)
MaxBatchSize == 2
\* largest kafka.concurrency explored (0 = key absent from the configuration)
MaxKafkaConcurrency == 2
\* the capacity of bloomPreFilter's channel of definitely-new entries (10000)
newFilesChanLen == 1
\* the capacity of bloomPreFilter's channel of candidates (100000)
candidateChanLen == 2
\* the incremental scans run one after the other on the same catalog
MaxRuns == 2
\* the longest pattern and the longest value given to the like operator
MaxLikeLen == 2
\* the longest name compared by a name clause
MaxNameLen == 3
\* the half hours that can pass between the start of the scan and an evaluation
MaxTick == 2
\* longest numeral handed to parseSize
MaxNumLen == 3
\* the invocations of the scan command with one job id
MaxInvocations == 3

\* ------------------------------------------------------- sequences, strings
RECURSIVE SeqSum(_)
SeqSum(s) == IF s = <<>> THEN 0 ELSE Head(s) + SeqSum(Tail(s))

Range(s) == {s[i] : i \in 1..Len(s)}

\* number of positions of s holding x
Count(s, x) == Cardinality({i \in 1..Len(s) : s[i] = x})

Last(s) == s[Len(s)]

Front(s) == SubSeq(s, 1, Len(s) - 1)

UpperToLower ==
  [A |-> "a", B |-> "b", C |-> "c", D |-> "d", E |-> "e", F |-> "f", G |-> "g",
   H |-> "h", I |-> "i", J |-> "j", K |-> "k", L |-> "l", M |-> "m", N |-> "n",
   O |-> "o", P |-> "p", Q |-> "q", R |-> "r", S |-> "s", T |-> "t", U |-> "u",
   V |-> "v", W |-> "w", X |-> "x", Y |-> "y", Z |-> "z"]

\* strings.ToLower
ToLower(s) ==
  [i \in 1..Len(s) |-> IF s[i] \in DOMAIN UpperToLower THEN UpperToLower[s[i]] ELSE s[i]]

\* strings.Contains
Contains(s, sub) ==
  \E i \in 0..(Len(s) - Len(sub)) : SubSeq(s, i + 1, i + Len(sub)) = sub

\* strings.Replace(s, old, new, -1) for a one-character old
RECURSIVE ReplaceAll(_, _, _)
ReplaceAll(s, old, new) ==
  IF s = <<>> THEN <<>>
  ELSE (IF Head(s) = old THEN new ELSE <<Head(s)>>) \o ReplaceAll(Tail(s), old, new)

\* regexp.MatchString("^" + p + "$", v) for patterns made of literal
\* characters, "." and a postfix "*"
RECURSIVE RegexMatch(_, _)
RegexMatch(p, v) ==
  IF p = <<>> THEN v = <<>>
  ELSE IF Len(p) >= 2 /\ p[2] = "*"
       THEN \/ RegexMatch(Tail(Tail(p)), v)
            \/ /\ v # <<>>
               /\ (p[1] = "." \/ p[1] = v[1])
               /\ RegexMatch(p, Tail(v))
       ELSE /\ v # <<>>
            /\ (p[1] = "." \/ p[1] = v[1])
            /\ RegexMatch(Tail(p), Tail(v))

\* regexp.Compile succeeds, for patterns made of literal characters, ".",
\* "*", "(" and "[": a parenthesis or a bracket that is never closed, a "*"
\* with nothing to repeat and a "*" repeating a "*" are syntax errors
RegexCompiles(p) ==
  /\ \A i \in 1..Len(p) : p[i] \notin {"(", "["}
  /\ \A i \in 1..Len(p) : p[i] = "*" => (i > 1 /\ p[i - 1] # "*")

\* strings.Index(s, sub) + 1, 0 when sub does not occur in s
Index(s, sub) ==
  LET at == {i \in 1..(Len(s) - Len(sub) + 1) : SubSeq(s, i, i + Len(sub) - 1) = sub}
  IN IF at = {} THEN 0 ELSE CHOOSE i \in at : \A j \in at : i <= j

RECURSIVE Split(_, _)
\* strings.Split(s, sep) for a non-empty sep
Split(s, sep) ==
  LET i == Index(s, sep)
  IN IF i = 0 THEN << s >>
     ELSE << SubSeq(s, 1, i - 1) >> \o Split(SubSeq(s, i + Len(sep), Len(s)), sep)

RECURSIVE TrimLeft(_, _)
TrimLeft(s, cutset) ==
  IF s # <<>> /\ Head(s) \in cutset THEN TrimLeft(Tail(s), cutset) ELSE s

RECURSIVE TrimRight(_, _)
TrimRight(s, cutset) ==
  IF s # <<>> /\ Last(s) \in cutset THEN TrimRight(Front(s), cutset) ELSE s

\* strings.Trim(s, cutset)
Trim(s, cutset) == TrimRight(TrimLeft(s, cutset), cutset)

\* strings.TrimSpace
TrimSpace(s) == Trim(s, {" "})

DigitValue ==
  [c \in {"0", "1", "2", "3", "4", "5", "6", "7", "8", "9"} |->
     CASE c = "0" -> 0 [] c = "1" -> 1 [] c = "2" -> 2 [] c = "3" -> 3 [] c = "4" -> 4
       [] c = "5" -> 5 [] c = "6" -> 6 [] c = "7" -> 7 [] c = "8" -> 8 [] c = "9" -> 9]

RECURSIVE Digits(_)
\* the number a sequence of decimal digits writes
Digits(s) == IF s = <<>> THEN 0 ELSE 10 * Digits(Front(s)) + DigitValue[Last(s)]

RECURSIVE Pow10(_)
Pow10(n) == IF n = 0 THEN 1 ELSE 10 * Pow10(n - 1)

\* strconv.ParseFloat for unsigned decimal numerals: the value is num / den
ParseFloat(s) ==
  LET dot == Index(s, <<".">>)
      whole == IF dot = 0 THEN s ELSE SubSeq(s, 1, dot - 1)
      frac == IF dot = 0 THEN <<>> ELSE SubSeq(s, dot + 1, Len(s))
  IN IF \/ whole \o frac = <<>>
        \/ \E i \in 1..Len(whole \o frac) : (whole \o frac)[i] \notin DOMAIN DigitValue
     THEN [err |-> TRUE]
     ELSE [err |-> FALSE, num |-> Digits(whole \o frac), den |-> Pow10(Len(frac))]

\* ----------------------------------------------------------------- entries
\* object.FileInfo as the walker and the dispatcher read it
\* (ctime and atime are the mtime on every platform but Windows)
FileInfo(key, isDir, size, mtime, isSymlink) ==
  [key |-> key, isDir |-> isDir, size |-> size, mtime |-> mtime, ctime |-> mtime,
   atime |-> mtime, perm |-> IF isDir THEN 493 ELSE 420,
   isSymlink |-> isSymlink, isRegular |-> (~isDir /\ ~isSymlink)]

\* fileObject.Key() is filepath.Join(dir, name)
Key(o) == o.key

RECURSIVE PathString(_)
\* the key as one string: "/" before every name
PathString(key) ==
  IF key = <<>> THEN <<>> ELSE <<"/">> \o Head(key) \o PathString(Tail(key))

\* filepath.Base(key)
Base(key) == IF key = <<>> THEN <<"/">> ELSE Last(key)

\* the storage's universe: the children Storage.List yields, in its order;
\* a directory has the size its inode reports
UChildren(dir) ==
  CASE dir = <<>> ->
         << FileInfo(<< <<"a">> >>, TRUE, 4, 1, FALSE),
            FileInfo(<< <<"f">> >>, FALSE, 1, 0, FALSE),
            FileInfo(<< <<"b">> >>, TRUE, 4, 1, FALSE),
            FileInfo(<< <<"c">> >>, TRUE, 4, 0, TRUE) >>
    [] dir = << <<"a">> >> ->
         << FileInfo(<< <<"a">>, <<"x">> >>, FALSE, 2, 1, FALSE),
            FileInfo(<< <<"a">>, <<"d">> >>, TRUE, 4, 0, FALSE) >>
    [] dir = << <<"b">> >> ->
         << FileInfo(<< <<"b">>, <<"z">> >>, FALSE, 1, 1, FALSE) >>
    [] dir = << <<"a">>, <<"d">> >> ->
         << FileInfo(<< <<"a">>, <<"d">>, <<"y", "2">> >>, FALSE, 3, 1, FALSE) >>
    [] OTHER -> <<>>

KA == << <<"a">> >>
KF == << <<"f">> >>
KB == << <<"b">> >>
KC == << <<"c">> >>
KAX == << <<"a">>, <<"x">> >>
KAD == << <<"a">>, <<"d">> >>
KADY == << <<"a">>, <<"d">>, <<"y", "2">> >>

KBZ == << <<"b">>, <<"z">> >>

KeysOfUniverse == {KA, KF, KB, KC, KAX, KAD, KADY, KBZ}

\* the finite trees explored: each is the set of keys present
Trees ==
  { {},
    {KA, KAX, KAD, KADY},
    KeysOfUniverse }

\* the sets of directories whose Storage.List returns an error
ListFailures == { {}, {KA}, {<<>>} }

\* Storage.List(dir) on a storage holding the keys of tree
StorageList(tree, dir) == SelectSeq(UChildren(dir), LAMBDA o : Key(o) \in tree)

RECURSIVE EntriesBelow(_, _, _)
\* every entry of the tree under dir, down to n levels
EntriesBelow(tree, dir, n) ==
  IF n = 0 THEN {}
  ELSE LET here == Range(StorageList(tree, dir))
       IN here \cup UNION { EntriesBelow(tree, Key(o), n - 1) : o \in {e \in here : e.isDir} }

\* every entry of the tree
AllEntries(tree) == EntriesBelow(tree, <<>>, Cardinality(tree) + 1)

\* depth of an entry: the children of the root are at depth 1
EntryDepth(o) == Len(Key(o))

\* the directory an entry was listed from
ParentDir(o) == Front(Key(o))

\* ------------------------------------------------------------------ filter
Condition(property, operator, value) ==
  [Property |-> property, Operator |-> operator, Value |-> value]

matchString(value, operator, target) ==
  CASE operator = "==" -> value = target
    [] operator = "!=" -> value # target
    [] operator = "in" -> Contains(ToLower(value), ToLower(target))
    [] operator = "like" ->
         LET regexPattern == ReplaceAll(ReplaceAll(target, "%", <<".", "*">>), "_", <<".">>)
         IN RegexCompiles(regexPattern) /\ RegexMatch(regexPattern, value)
    [] OTHER -> FALSE

\* mutant: an operator matchNumber does not know matches
matchNumber_Lenient(value, operator, target) ==
  CASE operator = "==" -> value = target
    [] operator = "!=" -> value # target
    [] operator = ">" -> value > target
    [] operator = "<" -> value < target
    [] operator = ">=" -> value >= target
    [] operator = "<=" -> value <= target
    [] OTHER -> TRUE

matchNumber(value, operator, target) ==
  CASE operator = "==" -> value = target
    [] operator = "!=" -> value # target
    [] operator = ">" -> value > target
    [] operator = "<" -> value < target
    [] operator = ">=" -> value >= target
    [] operator = "<=" -> value <= target
    [] OTHER -> FALSE

\* time.Time values are integers (hours); After is >, Before is <
matchTime(value, operator, target) ==
  CASE operator = ">" -> value > target
    [] operator = "<" -> value < target
    [] operator = ">=" -> ~(value < target)
    [] operator = "<=" -> ~(value > target)
    [] operator = "==" -> value = target
    [] operator = "!=" -> ~(value = target)
    [] OTHER -> FALSE

\* now is the reading of time.Now() taken by this evaluation
matchCondition(fileInfo, cond, now) ==
  CASE cond.Property = "name" -> matchString(Base(Key(fileInfo)), cond.Operator, cond.Value)
    [] cond.Property = "path" -> matchString(PathString(Key(fileInfo)), cond.Operator, cond.Value)
    [] cond.Property = "size" -> matchNumber(fileInfo.size, cond.Operator, cond.Value)
    [] cond.Property = "modified" -> matchTime(fileInfo.mtime, cond.Operator, now - cond.Value)
    [] cond.Property = "type" ->
         matchString(IF fileInfo.isDir THEN <<"d", "i", "r">> ELSE <<"f", "i", "l", "e">>,
                     cond.Operator, cond.Value)
    [] OTHER -> FALSE

\* mutant: a condition that matches ends the loop
Rejects_OnMatch(fileInfo, cond, now) == matchCondition(fileInfo, cond, now)

\* if !f.matchCondition(fileInfo, cond)
Rejects(fileInfo, cond, now) == ~matchCondition(fileInfo, cond, now)

RECURSIVE IsSatisfiedLoop(_, _, _, _)
\* the loop of IsSatisfied from its i-th condition on: what it returns, and
\* how many conditions it has evaluated by then
IsSatisfiedLoop(f, fileInfo, now, i) ==
  IF i > Len(f.conditions) THEN [result |-> TRUE, evaluated |-> i - 1]
  ELSE IF Rejects(fileInfo, f.conditions[i], now) THEN [result |-> FALSE, evaluated |-> i]
  ELSE IsSatisfiedLoop(f, fileInfo, now, i + 1)

IsSatisfied(f, fileInfo, now) == IsSatisfiedLoop(f, fileInfo, now, 1).result

\* ----------------------------------------------------- filter compilation
\* ParseConditions: the whole input is lower-cased, cut at every occurrence
\* of the letters "and", and the blank pieces are dropped
ParseConditions(input) ==
  LET conditions == Split(ToLower(input), <<"a", "n", "d">>)
      trimmed == [i \in 1..Len(conditions) |-> TrimSpace(conditions[i])]
  IN SelectSeq(trimmed, LAMBDA c : c # <<>>)

\* the operators of parseCondition in the order of its alternation
operators ==
  << [text |-> <<">", "=">>, name |-> ">="],
     [text |-> <<"<", "=">>, name |-> "<="],
     [text |-> <<"=", "=">>, name |-> "=="],
     [text |-> <<"!", "=">>, name |-> "!="],
     [text |-> <<"i", "n">>, name |-> "in"],
     [text |-> <<"l", "i", "k", "e">>, name |-> "like"],
     [text |-> <<">">>, name |-> ">"],
     [text |-> <<"<">>, name |-> "<"] >>

\* the operator k of the alternation stands at position i of s
OperatorAt(s, i, k) ==
  /\ i + Len(operators[k].text) - 1 <= Len(s)
  /\ SubSeq(s, i, i + Len(operators[k].text) - 1) = operators[k].text

\* the properties parseCondition knows
properties ==
  << [text |-> <<"n", "a", "m", "e">>, name |-> "name"],
     [text |-> <<"t", "y", "p", "e">>, name |-> "type"],
     [text |-> <<"p", "a", "t", "h">>, name |-> "path"],
     [text |-> <<"s", "i", "z", "e">>, name |-> "size"],
     [text |-> <<"m", "o", "d", "i", "f", "i", "e", "d">>, name |-> "modified"] >>

\* mutant: every unit is one bit short
multipliers_OneBitShort(unit) ==
  CASE unit = "k" -> 9
    [] unit = "m" -> 19
    [] unit = "g" -> 29
    [] unit = "t" -> 39

\* the multipliers of parseSize, 1 << n each: the n of every unit
multipliers(unit) ==
  CASE unit = "k" -> 10
    [] unit = "m" -> 20
    [] unit = "g" -> 30
    [] unit = "t" -> 40

RECURSIVE ShiftLeft(_, _, _, _)
\* int64(num * float64(1 << n)) for num = q + r / den: doubling is exact on
\* a float64, and the conversion drops the fraction that is left
ShiftLeft(q, r, den, n) ==
  IF n = 0 THEN q
  ELSE ShiftLeft(2 * q + (2 * r) \div den, (2 * r) % den, den, n - 1)

\* parseSize: ^([0-9.]+)([kmgKMGtT]?)$, then int64(num * multiplier)
parseSize(sizeStr) ==
  LET str == TrimSpace(sizeStr)
      hasUnit == str # <<>> /\ ToLower(<<Last(str)>>)[1] \in {"k", "m", "g", "t"}
      digits == IF hasUnit THEN Front(str) ELSE str
      shift == IF hasUnit THEN multipliers(ToLower(<<Last(str)>>)[1]) ELSE 0
      num == ParseFloat(digits)
  IN IF digits = <<>> \/ \E i \in 1..Len(digits) : digits[i] \notin DOMAIN DigitValue \cup {"."}
     THEN [err |-> TRUE]
     ELSE IF num.err THEN [err |-> TRUE]
     ELSE [err |-> FALSE,
           value |-> ShiftLeft(num.num \div num.den, num.num % num.den, num.den, shift)]

\* time.Hour, the unit of time being the half hour
Hour == 2

\* mutant: the fraction of the hour count is dropped
parseDuration_WholeHours(durStr) ==
  LET hours == ParseFloat(TrimSpace(durStr))
  IN IF hours.err THEN [err |-> TRUE]
     ELSE [err |-> FALSE, value |-> (hours.num \div hours.den) * Hour]

\* parseDuration: time.Duration(hours * float64(time.Hour))
parseDuration(durStr) ==
  LET hours == ParseFloat(TrimSpace(durStr))
  IN IF hours.err THEN [err |-> TRUE]
     ELSE [err |-> FALSE, value |-> (hours.num * Hour) \div hours.den]

\* parseCondition: the leftmost operator splits the clause into the property
\* and the value
parseCondition(condStr) ==
  LET found == {i \in 1..Len(condStr) : \E k \in 1..Len(operators) : OperatorAt(condStr, i, k)}
  IN IF found = {} THEN [err |-> TRUE]
     ELSE LET at == CHOOSE i \in found : \A j \in found : i <= j
              k == CHOOSE n \in 1..Len(operators) :
                     /\ OperatorAt(condStr, at, n)
                     /\ \A m \in 1..(n - 1) : ~OperatorAt(condStr, at, m)
              property == ToLower(TrimSpace(SubSeq(condStr, 1, at - 1)))
              valueStr ==
                TrimSpace(SubSeq(condStr, at + Len(operators[k].text), Len(condStr)))
              known == {n \in 1..Len(properties) : properties[n].text = property}
          IN IF known = {} THEN [err |-> TRUE]
             ELSE LET name == properties[CHOOSE n \in known : TRUE].name
                      value ==
                        CASE name \in {"name", "type", "path"} ->
                               [err |-> FALSE, value |-> Trim(valueStr, {"'", "\""})]
                          [] name = "size" -> parseSize(valueStr)
                          [] name = "modified" -> parseDuration(valueStr)
                  IN IF value.err THEN [err |-> TRUE]
                     ELSE [err |-> FALSE,
                           cond |-> Condition(name, operators[k].name, value.value)]

\* NewConditionFilter: the filter of the parsed clauses, or the error of the
\* first clause that does not parse
NewConditionFilter(conditions) ==
  LET parsed == [i \in 1..Len(conditions) |-> parseCondition(conditions[i])]
  IN IF \E i \in 1..Len(parsed) : parsed[i].err THEN [err |-> TRUE]
     ELSE [err |-> FALSE, conditions |-> [i \in 1..Len(parsed) |-> parsed[i].cond]]

\* the compiled filters explored as match and as exclude filter
NoFilter == [conditions |-> <<>>]
TypeIsDir == [conditions |-> << Condition("type", "==", <<"d", "i", "r">>) >>]
BigFile ==
  [conditions |-> << Condition("type", "==", <<"f", "i", "l", "e">>),
                     Condition("size", ">=", 2) >>]
NameHasA == [conditions |-> << Condition("name", "in", <<"A">>) >>]
NameLikeX == [conditions |-> << Condition("name", "like", <<"_">>),
                                Condition("name", "!=", <<"f">>) >>]

\* the <<match, exclude>> pairs explored
FilterPairs ==
  { <<NoFilter, NoFilter>>, <<NoFilter, NameLikeX>>, <<BigFile, NameHasA>>,
    <<BigFile, NameLikeX>>, <<TypeIsDir, NameHasA>> }

Clock == 1..MaxClock

\* ------------------------------------------------------------------- state
VARIABLES
  \* ListAll's arguments
  storage,            \* [tree: the keys present, fail: directories whose List fails]
  concurrency,        \* N
  depth,              \* D, 0 = unlimited
  matchConditions,
  excludeConditions,
  \* ListAll
  dirs,               \* the directory queue: dirInfo values
  dirsClosed,
  results,            \* the result queue
  resultsClosed,
  pending,
  wpc,                \* worker -> "off" | "recv" | "range" | "release" | "done"
  queue,              \* worker -> children Storage.List still has to yield
  subdirs,            \* worker -> the subdirs slice of the running list()
  senders,            \* the remaining slices of the enqueueing goroutines
  mainpc,             \* "seed" | "wait" | "closed"
  panicked,           \* a send on, or a close of, a closed channel
  listCalls,          \* directory -> number of Storage.List calls made for it
  enqueued,           \* directory -> number of sends of it on the directory queue
  delivered,          \* what the consumer received from the result queue
  expired,            \* the scan-wide deadline (ScanConfig.Timeout) has passed
  \* ProcessFilesForFullScan
  input,              \* what the walker has still to push onto scannedChan
  batchSize,          \* scanConfig.DBBatchSize
  kafkaConfig,        \* reportConfig.KafkaConfig, and whether the broker answers
  kafkaProducer,      \* TRUE when the producer is not nil
  stats,
  fpc,                \* dispatcher: "off" | "recv" | "db" | "kafka" | "stats" | "done"
  fcur,               \* the fileInfo of the running iteration
  dbChan,
  dbChanClosed,
  kafkaChan,
  kafkaChanClosed,
  dpc,                \* catalog writer: "off" | "recv" | "save" | "final" | "log" | "done"
  buffer,
  totalSaved,
  saving,             \* SaveEntries calls in progress
  saves,              \* the SaveEntries calls that returned: [batch, ok, final]
  file_entries,       \* the rows of the canonical table
  savedLog,           \* the logged total, -1 before the log line
  kpc,                \* Sink coordinator: "off" | "recv" | "acquire" | "done"
  kcur,
  kafkaWorkerPool,    \* permits held
  tasks,              \* the send goroutines: [fi, phase: "send" | "release"]
  kafkaWg,
  sent,               \* the entries SendMessage was called for and returned
  received,           \* the entries the dispatcher took from scannedChan
  dbEnq,              \* the entries it put on dbChan
  sinkEnq,            \* the entries it put on kafkaChan
  updated,            \* the entries it passed to stats.Update
  ppc,                \* ProcessFilesForFullScan: "off" | "open" | "wait" | "returned" |
                      \* "panicked" | "failed"
  \* Start
  startResult,        \* "running" | "nil" | "error" | "panic"
  \* ProcessFilesForIncrementalScan
  ipc,                \* "off" | "open" | "warm" | "bloom" | "load" | "save" | "final" |
                      \* "query" | "returned" | "failed" | "panicked"
  collisions,         \* the paths the bloom filter's hashing cannot tell from added ones
  filter,             \* the paths for which filter.TestString answers true
  bpc,                \* prefilter goroutine: "off" | "recv" | "new" | "cand" | "done"
  bcur,
  newFilesChan,
  newFilesChanClosed,
  candidateChan,
  candidateChanClosed,
  cpc,                \* collector goroutine: "off" | "recv" | "done"
  newFiles,           \* the slice bloomPreFilter returns
  tables,             \* temp table name -> [exists, rows]
  tempTableName,      \* 0 before the name is drawn
  newFileChan,
  newFileChanClosed,
  changedFileChan,
  changedFileChanClosed,
  runs,               \* the runs that returned: [new, changed, queried, faulted] of an
                      \* incremental run, [catalog, faulted, batches] of a full scan
  \* a call of Stats or of the filter package taken on its own
  arg,                \* the arguments of the call, <<>> when there is none
  ret,                \* what it returned, <<>> before it returns
  \* the scan command
  jobsDir             \* jobs/<job id> under the executable: [exists, file_entries]

pipeVars ==
  << input, batchSize, kafkaConfig, kafkaProducer, stats, fpc, fcur, dbChan, dbChanClosed,
     kafkaChan, kafkaChanClosed, dpc, buffer, totalSaved, saving, saves, file_entries,
     savedLog, kpc, kcur, kafkaWorkerPool, tasks, kafkaWg, sent, received, dbEnq, sinkEnq,
     updated, ppc >>

diffVars ==
  << ipc, collisions, filter, bpc, bcur, newFilesChan, newFilesChanClosed, candidateChan,
     candidateChanClosed, cpc, newFiles, tables, tempTableName, newFileChan,
     newFileChanClosed, changedFileChan, changedFileChanClosed, runs >>

auxVars == << arg, ret, jobsDir >>

\* the walker's state apart from its result stream
listVars ==
  << storage, concurrency, depth, matchConditions, excludeConditions, dirs, dirsClosed,
     pending, wpc, queue, subdirs, senders, mainpc, panicked, listCalls,
     enqueued >>

walkVars == << listVars, results, resultsClosed >>

Workers == 1..MaxConcurrency

dirInfo(path, d) == [path |-> path, depth |-> d]

\* every directory key Storage.List can be asked about
DirKeys == {<<>>} \cup {Key(o) : o \in {e \in AllEntries(KeysOfUniverse) : e.isDir}}

\* ------------------------------------------------------------------- Stats
NewStats ==
  [fileCount |-> 0, dirCount |-> 0, totalSize |-> 0, totalSymlink |-> 0,
   totalRegularFile |-> 0, totalNameLength |-> 0, maxNameLength |-> 0,
   totalDirDepth |-> 0, maxDirDepth |-> 0]

\* filepath.Dir(key) as a string
DirString(key) == IF Len(key) <= 1 THEN <<"/">> ELSE PathString(Front(key))

\* mutant: the separator at the head of the path is not counted
DirDepth_BelowRoot(path) ==
  IF path = <<"/">> \/ path = <<".">> THEN 0 ELSE Count(path, "/") - 1

\* strings.Count(path, separator), 0 for the root directory
DirDepth(path) ==
  IF path = <<"/">> \/ path = <<".">> THEN 0 ELSE Count(path, "/")

\* mutant: only the symbolic links counted as files are tallied
IsSymlinkTallied_FilesOnly(fileInfo) == fileInfo.isSymlink /\ ~fileInfo.isDir

\* if fileInfo.IsSymlink(), outside the file/directory branches
IsSymlinkTallied(fileInfo) == fileInfo.isSymlink

\* mutant: the value of the last file is written whatever the maximum was
MaxWrite_LastWins(max, v) == v

\* if v > s.max { s.max = v }: a read and a write that are not one atomic step
MaxWrite(max, v) == IF v > max THEN v ELSE max

\* Stats.Update
Update(s, fileInfo) ==
  LET key == Key(fileInfo)
      nameLength == Len(Base(key))
      path == DirString(key)
      d == DirDepth(path)
      counted ==
        IF fileInfo.isDir
        THEN [s EXCEPT !.dirCount = @ + 1]
        ELSE [s EXCEPT !.fileCount = @ + 1,
                       !.totalSize = @ + fileInfo.size,
                       !.totalNameLength = @ + nameLength,
                       !.totalDirDepth = @ + d,
                       !.maxNameLength = MaxWrite(@, nameLength),
                       !.maxDirDepth = MaxWrite(@, d),
                       !.totalRegularFile = IF fileInfo.isRegular THEN @ + 1 ELSE @]
  IN IF IsSymlinkTallied(fileInfo) THEN [counted EXCEPT !.totalSymlink = @ + 1] ELSE counted

\* mutant: the quotient is rounded to the nearest integer
GetAvgNameLength_Rounded(s) ==
  IF s.fileCount = 0 THEN 0
  ELSE (2 * s.totalNameLength + s.fileCount) \div (2 * s.fileCount)

\* Stats.GetAvgNameLength: Go's / on non-negative int64 operands
GetAvgNameLength(s) ==
  IF s.fileCount = 0 THEN 0 ELSE s.totalNameLength \div s.fileCount

\* Stats.GetAvgDirDepth
GetAvgDirDepth(s) ==
  IF s.fileCount = 0 THEN 0 ELSE s.totalDirDepth \div s.fileCount

\* Stats.Print: the numbers of its lines; totalSize / int64(fileCount) is an
\* integer division, which panics when no file was counted
StatsPrint(s) ==
  IF s.fileCount = 0 THEN [panic |-> TRUE]
  ELSE [panic |-> FALSE,
        lines |-> [label \in {"Total", "Files", "Directories", "Capacity Total",
                              "Capacity Average", "Avg", "Max", "Avg dir depth",
                              "Max dir depth"} |->
                     CASE label = "Total" -> s.fileCount + s.dirCount
                       [] label = "Files" -> s.fileCount
                       [] label = "Directories" -> s.dirCount
                       [] label = "Capacity Total" -> s.totalSize
                       [] label = "Capacity Average" -> s.totalSize \div s.fileCount
                       [] label = "Avg" -> GetAvgNameLength(s)
                       [] label = "Max" -> s.maxNameLength
                       [] label = "Avg dir depth" -> GetAvgDirDepth(s)
                       [] label = "Max dir depth" -> s.maxDirDepth]]

\* ----------------------------------------------------------------- Catalog
\* filepath.Ext(key): the suffix of the last name from its final "."
Ext(key) ==
  LET name == Base(key)
      dots == {i \in 1..Len(name) : name[i] = "."}
  IN IF dots = {} THEN <<>>
     ELSE SubSeq(name, CHOOSE i \in dots : \A j \in dots : j <= i, Len(name))

\* db.ProcessFileInfo: the row of an entry
ProcessFileInfo(fileInfo) ==
  [path |-> PathString(Key(fileInfo)),
   size |-> fileInfo.size,
   ext |-> IF fileInfo.isDir THEN <<>> ELSE Ext(Key(fileInfo)),
   ctime |-> fileInfo.ctime, mtime |-> fileInfo.mtime, atime |-> fileInfo.atime,
   perm |-> fileInfo.perm,
   is_symlink |-> fileInfo.isSymlink, is_dir |-> fileInfo.isDir,
   is_regular_file |-> fileInfo.isRegular]

\* SQLiteDB.SaveEntries: one INSERT statement for the whole batch; ok is
\* whether the database executes it
SaveEntries(rows, fileInfos, ok) ==
  IF Len(fileInfos) = 0 THEN rows
  ELSE IF ok THEN rows \o [i \in 1..Len(fileInfos) |-> ProcessFileInfo(fileInfos[i])]
  ELSE rows

\* SQLiteDB.GetUniqueExtCount: SELECT COUNT(DISTINCT ext) FROM file_entries
GetUniqueExtCount(rows) == Cardinality({rows[i].ext : i \in 1..Len(rows)})

\* GenerateConsoleReportSummary: the labelled numbers of the report, or the
\* panic of Stats.Print
GenerateConsoleReportSummary(s, rows) ==
  LET printed == StatsPrint(s)
  IN IF printed.panic THEN [panic |-> TRUE]
     ELSE [panic |-> FALSE,
           lines |-> [label \in DOMAIN printed.lines \cup {"File type"} |->
                        IF label = "File type" THEN GetUniqueExtCount(rows)
                        ELSE printed.lines[label]]]

\* -------------------------------------------------------------------- Sink
GoodKafka(k) ==
  [Enabled |-> TRUE, Host |-> "h", Port |-> 9092, Topic |-> "t", Concurrency |-> k,
   brokerUp |-> TRUE]

\* the Sink configurations explored
KafkaConfigs ==
  {GoodKafka(k) : k \in 0..MaxKafkaConcurrency}
    \cup { [GoodKafka(1) EXCEPT !.Enabled = FALSE],
           [GoodKafka(1) EXCEPT !.Host = ""],
           [GoodKafka(1) EXCEPT !.Port = 0],
           [GoodKafka(1) EXCEPT !.brokerUp = FALSE],
           [GoodKafka(1) EXCEPT !.Topic = ""] }

\* InitKafkaProducer: TRUE when it returns a producer and no error
InitKafkaProducer(cfg) ==
  IF ~cfg.Enabled THEN FALSE
  ELSE IF cfg.Host = "" \/ cfg.Port <= 0 THEN FALSE
  ELSE cfg.brokerUp

\* the producer ProcessFilesForFullScan ends up with
ProducerOf(cfg) == IF cfg.Enabled THEN InitKafkaProducer(cfg) ELSE FALSE

\* the stream a walk of the whole universe can deliver
WalkStream ==
  UChildren(<<>>) \o UChildren(KA) \o UChildren(KAD)

InputStreams == {SubSeq(WalkStream, 1, n) : n \in 0..MaxInput}

\* the stream of a walk that admits files only and lists /a/d before /b
FilesDeepFirst == UChildren(KAD) \o UChildren(KB)

\* ProcessFilesForFullScan is not running
IdlePipeline ==
  /\ input = <<>>
  /\ batchSize = 0
  /\ kafkaConfig = [GoodKafka(0) EXCEPT !.Enabled = FALSE]
  /\ kafkaProducer = FALSE
  /\ stats = NewStats
  /\ fpc = "off"
  /\ fcur = <<>>
  /\ dbChan = <<>>
  /\ dbChanClosed = FALSE
  /\ kafkaChan = <<>>
  /\ kafkaChanClosed = FALSE
  /\ dpc = "off"
  /\ buffer = <<>>
  /\ totalSaved = 0
  /\ saving = 0
  /\ saves = <<>>
  /\ file_entries = <<>>
  /\ savedLog = -1
  /\ kpc = "off"
  /\ kcur = <<>>
  /\ kafkaWorkerPool = 0
  /\ tasks = {}
  /\ kafkaWg = 0
  /\ sent = {}
  /\ received = <<>>
  /\ dbEnq = <<>>
  /\ sinkEnq = <<>>
  /\ updated = <<>>
  /\ ppc = "off"

\* the temp tables a catalog can come to hold, none of them created yet
NoTables == [n \in 1..MaxRuns |-> [exists |-> FALSE, rows |-> <<>>]]

\* ProcessFilesForIncrementalScan is not running
IdleDiff ==
  /\ ipc = "off"
  /\ collisions = {}
  /\ filter = {}
  /\ bpc = "off"
  /\ bcur = <<>>
  /\ newFilesChan = <<>>
  /\ newFilesChanClosed = FALSE
  /\ candidateChan = <<>>
  /\ candidateChanClosed = FALSE
  /\ cpc = "off"
  /\ newFiles = <<>>
  /\ tables = NoTables
  /\ tempTableName = 0
  /\ newFileChan = <<>>
  /\ newFileChanClosed = FALSE
  /\ changedFileChan = <<>>
  /\ changedFileChanClosed = FALSE
  /\ runs = <<>>

\* no call of Stats or of the filter package is followed on its own
\* no job directory of this id yet
NoJobsDir == [exists |-> FALSE, file_entries |-> FALSE]

IdleAux ==
  /\ arg = <<>>
  /\ ret = <<>>
  /\ jobsDir = NoJobsDir

\* ---------------------------------------------------------------- ListAll
\* mutant: the exclude filter is consulted even when it has no condition
Admitted_EmptyExcludeApplies(M, X, o, now) ==
  LET matchOk == Len(M.conditions) = 0 \/ IsSatisfied(M, o, now)
      excludeOk == IsSatisfied(X, o, now)
  IN matchOk /\ ~excludeOk

\* the admission rule of list()
Admitted(M, X, o, now) ==
  LET matchOk == Len(M.conditions) = 0 \/ IsSatisfied(M, o, now)
      excludeOk == Len(X.conditions) > 0 /\ IsSatisfied(X, o, now)
  IN matchOk /\ ~excludeOk

\* mutant: the cap is compared with >=, one level too early
BeyondDepth_OffByOne(D, currentDepth) == D > 0 /\ currentDepth >= D

\* list() returns at once for a directory beyond the depth cap
BeyondDepth(D, currentDepth) == D > 0 /\ currentDepth > D

\* mutant: the subdirectories are enqueued without raising the counter
AddPending_Forgotten(p, n) == p

\* atomic.AddInt64(&pending, int64(len(subdirs)))
AddPending(p, n) == p + n

\* mutant: a full result queue drops the entry instead of blocking
SendResult_Drop(q, o) == IF Len(q) < listQueueLen THEN {Append(q, o)} ELSE {q}

\* results <- o: the send blocks while the queue is full (no successor)
SendResult(q, o) == IF Len(q) < listQueueLen THEN {Append(q, o)} ELSE {}

\* mutant: only admitted directories are recursed into
Recursed_OnlyAdmitted(o, admitted) == o.isDir /\ admitted

\* if o.IsDir() { subdirs = append(subdirs, ...) }, whatever the filters said
Recursed(o, admitted) == o.isDir

\* mutant: the worker skips the release after a failed list()
AfterListError_Continue == "recv"

\* the worker logs the error of list() and goes on to release its unit
AfterListError == "release"

InitWalk ==
  /\ storage \in [tree : Trees, fail : ListFailures]
  /\ concurrency \in 1..MaxConcurrency
  /\ depth \in 0..MaxDepth
  /\ \E pair \in FilterPairs : matchConditions = pair[1] /\ excludeConditions = pair[2]
  /\ dirs = <<>>
  /\ dirsClosed = FALSE
  /\ results = <<>>
  /\ resultsClosed = FALSE
  /\ pending = 0
  /\ wpc = [w \in Workers |-> IF w <= concurrency THEN "recv" ELSE "off"]
  /\ queue = [w \in Workers |-> <<>>]
  /\ subdirs = [w \in Workers |-> <<>>]
  /\ senders = {}
  /\ mainpc = "seed"
  /\ panicked = FALSE
  /\ listCalls = [d \in DirKeys |-> 0]
  /\ enqueued = [d \in DirKeys |-> 0]
  /\ delivered = <<>>
  /\ expired = FALSE
  /\ IdlePipeline
  /\ IdleDiff
  /\ IdleAux
  /\ startResult = "running"

\* atomic.AddInt64(&pending, 1); dirs <- dirInfo{path: "/", depth: 1}
Seed ==
  /\ ~panicked
  /\ mainpc = "seed"
  /\ Len(dirs) < listDirQueueLen
  /\ pending' = pending + 1
  /\ dirs' = Append(dirs, dirInfo(<<>>, 1))
  /\ mainpc' = "wait"
  /\ UNCHANGED << storage, concurrency, depth, matchConditions, excludeConditions,
                  dirsClosed, results, resultsClosed, wpc, queue, subdirs, senders,
                  panicked, listCalls, delivered, expired >>
  /\ enqueued' = [enqueued EXCEPT ![<<>>] = @ + 1]
  /\ UNCHANGED << pipeVars, diffVars, startResult, auxVars >>

\* for dirInfo := range dirs, then list() up to the first child
Take(w) ==
  /\ ~panicked
  /\ wpc[w] = "recv"
  /\ dirs # <<>>
  /\ dirs' = Tail(dirs)
  /\ LET d == Head(dirs) IN
       IF BeyondDepth(depth, d.depth)
       THEN /\ wpc' = [wpc EXCEPT ![w] = "release"]
            /\ UNCHANGED << queue, subdirs, listCalls >>
       ELSE /\ listCalls' = [listCalls EXCEPT ![d.path] = @ + 1]
            /\ IF d.path \in storage.fail
               THEN /\ wpc' = [wpc EXCEPT ![w] = AfterListError]
                    /\ UNCHANGED << queue, subdirs >>
               ELSE /\ wpc' = [wpc EXCEPT ![w] = "range"]
                    /\ queue' = [queue EXCEPT ![w] =
                                   [i \in 1..Len(StorageList(storage.tree, d.path)) |->
                                      [o |-> StorageList(storage.tree, d.path)[i],
                                       depth |-> d.depth]]]
                    /\ subdirs' = [subdirs EXCEPT ![w] = <<>>]
  /\ UNCHANGED << storage, concurrency, depth, matchConditions, excludeConditions,
                  dirsClosed, results, resultsClosed, pending, senders, mainpc, panicked,
                  delivered, expired >>
  /\ UNCHANGED enqueued
  /\ UNCHANGED << pipeVars, diffVars, startResult, auxVars >>

\* mutant: the children are taken from the end of the listing
Ranged_FromEnd(q) == [next |-> Last(q), rest |-> Front(q)]

\* for o := range queue receives what Storage.List yields, in its order
Ranged(q) == [next |-> Head(q), rest |-> Tail(q)]

\* one iteration of for o := range queue
Emit(w) ==
  /\ ~panicked
  /\ wpc[w] = "range"
  /\ queue[w] # <<>>
  /\ LET o == Ranged(queue[w]).next.o
         currentDepth == Ranged(queue[w]).next.depth
     IN \E now \in Clock :
          LET admitted == Admitted(matchConditions, excludeConditions, o, now) IN
          /\ IF admitted
             THEN results' \in SendResult(results, o)
             ELSE UNCHANGED results
          /\ subdirs' = [subdirs EXCEPT ![w] =
                           IF Recursed(o, admitted)
                           THEN Append(@, dirInfo(Key(o), currentDepth + 1)) ELSE @]
  /\ queue' = [queue EXCEPT ![w] = Ranged(@).rest]
  /\ UNCHANGED << storage, concurrency, depth, matchConditions, excludeConditions, dirs,
                  dirsClosed, resultsClosed, pending, wpc, senders, mainpc, panicked,
                  listCalls, delivered, expired >>
  /\ UNCHANGED enqueued
  /\ UNCHANGED << pipeVars, diffVars, startResult, auxVars >>

\* after the loop: raise pending and start the enqueueing goroutine
Spawn(w) ==
  /\ ~panicked
  /\ wpc[w] = "range"
  /\ queue[w] = <<>>
  /\ IF Len(subdirs[w]) > 0
     THEN /\ pending' = AddPending(pending, Len(subdirs[w]))
          /\ senders' = senders \cup {subdirs[w]}
     ELSE UNCHANGED << pending, senders >>
  /\ wpc' = [wpc EXCEPT ![w] = "release"]
  /\ UNCHANGED << storage, concurrency, depth, matchConditions, excludeConditions, dirs,
                  dirsClosed, results, resultsClosed, queue, subdirs, mainpc, panicked,
                  listCalls, delivered, expired >>
  /\ UNCHANGED enqueued
  /\ UNCHANGED << pipeVars, diffVars, startResult, auxVars >>

\* if atomic.AddInt64(&pending, -1) == 0 { close(dirs) }
Release(w) ==
  /\ ~panicked
  /\ wpc[w] = "release"
  /\ pending' = pending - 1
  /\ IF pending' = 0
     THEN /\ dirsClosed' = TRUE
          /\ panicked' = dirsClosed
     ELSE UNCHANGED << dirsClosed, panicked >>
  /\ wpc' = [wpc EXCEPT ![w] = "recv"]
  /\ UNCHANGED << storage, concurrency, depth, matchConditions, excludeConditions, dirs,
                  results, resultsClosed, queue, subdirs, senders, mainpc, listCalls,
                  delivered, expired >>
  /\ UNCHANGED enqueued
  /\ UNCHANGED << pipeVars, diffVars, startResult, auxVars >>

\* the range over dirs ends: defer wg.Done()
Exit(w) ==
  /\ ~panicked
  /\ wpc[w] = "recv"
  /\ dirs = <<>>
  /\ dirsClosed
  /\ wpc' = [wpc EXCEPT ![w] = "done"]
  /\ UNCHANGED << storage, concurrency, depth, matchConditions, excludeConditions, dirs,
                  dirsClosed, results, resultsClosed, pending, queue, subdirs, senders,
                  mainpc, panicked, listCalls, delivered, expired >>
  /\ UNCHANGED enqueued
  /\ UNCHANGED << pipeVars, diffVars, startResult, auxVars >>

\* dirs <- d in an enqueueing goroutine
SendDir(s) ==
  /\ ~panicked
  /\ s \in senders
  /\ IF dirsClosed
     THEN /\ panicked' = TRUE
          /\ UNCHANGED << dirs, senders, enqueued >>
     ELSE /\ Len(dirs) < listDirQueueLen
          /\ dirs' = Append(dirs, Head(s))
          /\ enqueued' = [enqueued EXCEPT ![Head(s).path] = @ + 1]
          /\ senders' = (senders \ {s}) \cup (IF Len(s) > 1 THEN {Tail(s)} ELSE {})
          /\ UNCHANGED panicked
  /\ UNCHANGED << storage, concurrency, depth, matchConditions, excludeConditions,
                  dirsClosed, results, resultsClosed, pending, wpc, queue, subdirs, mainpc,
                  listCalls, delivered, expired >>
  /\ UNCHANGED << pipeVars, diffVars, startResult, auxVars >>

\* wg.Wait(); close(results)
CloseResults ==
  /\ ~panicked
  /\ mainpc = "wait"
  /\ \A w \in Workers : wpc[w] \in {"off", "done"}
  /\ resultsClosed' = TRUE
  /\ mainpc' = "closed"
  /\ UNCHANGED << storage, concurrency, depth, matchConditions, excludeConditions, dirs,
                  dirsClosed, results, pending, wpc, queue, subdirs, senders, panicked,
                  listCalls, delivered, expired >>
  /\ UNCHANGED enqueued
  /\ UNCHANGED << pipeVars, diffVars, startResult, auxVars >>

\* the consumer of ListAll's result stream takes one entry
Drain ==
  /\ ~panicked
  /\ results # <<>>
  /\ delivered' = Append(delivered, Head(results))
  /\ results' = Tail(results)
  /\ UNCHANGED << storage, concurrency, depth, matchConditions, excludeConditions, dirs,
                  dirsClosed, resultsClosed, pending, wpc, queue, subdirs, senders, mainpc,
                  panicked, listCalls, expired >>
  /\ UNCHANGED enqueued
  /\ UNCHANGED << pipeVars, diffVars, startResult, auxVars >>

SendDirs == \E s \in senders : SendDir(s)

vars == << walkVars, delivered, expired, pipeVars, diffVars, startResult, auxVars >>

Next ==
  \/ Seed
  \/ \E w \in Workers : Take(w)
  \/ \E w \in Workers : Emit(w)
  \/ \E w \in Workers : Spawn(w)
  \/ \E w \in Workers : Release(w)
  \/ \E w \in Workers : Exit(w)
  \/ SendDirs
  \/ CloseResults
  \/ Drain

Spec == InitWalk /\ [][Next]_vars

\* the Go scheduler runs a runnable goroutine, and the consumer keeps draining
\* the result stream: while some step is possible, a step is taken
FairSpec == Spec /\ WF_vars(Next)

\* the deadline of ScanConfig.Timeout passes; no code of the pipeline reads it
Deadline ==
  /\ ~expired
  /\ expired' = TRUE
  /\ UNCHANGED << walkVars, delivered >>
  /\ UNCHANGED << pipeVars, diffVars, startResult, auxVars >>

NextDeadline == Next \/ Deadline

SpecDeadline == InitWalk /\ [][NextDeadline]_vars

\* ------------------------------------------------- ProcessFilesForFullScan
\* a send on a channel of capacity cap: an unbuffered channel (cap = 0) takes
\* the value only while its receiver is waiting
CanSend(ch, cap, receiverWaiting) ==
  IF cap = 0 THEN ch = <<>> /\ receiverWaiting ELSE Len(ch) < cap

\* mutant: the topic is not looked at
ToSink_AnyTopic(producer, cfg) == producer

\* if kafkaProducer != nil && reportConfig.KafkaConfig.Topic != ""
ToSink(producer, cfg) == producer /\ cfg.Topic # ""

\* mutant: the buffer is flushed one entry late
BatchFull_Late(bufferLen, B) == bufferLen > B

\* if bufferLen >= batchSize
BatchFull(bufferLen, B) == bufferLen >= B

\* mutant: failed batches are counted as saved
SavedAfter_CountsFailures(total, bufferLen, ok) == total + bufferLen

\* totalSaved += bufferLen, in the branch without error
SavedAfter(total, bufferLen, ok) == IF ok THEN total + bufferLen ELSE total

\* mutant: the send goroutine is started without waiting for a permit
PermitFree_Always(held, cfg) == TRUE

\* kafkaWorkerPool <- struct{}{} needs a free slot of the pool
PermitFree(held, cfg) == held < cfg.Concurrency

InitFull ==
  /\ storage = [tree |-> {}, fail |-> {}]
  /\ concurrency = 1
  /\ depth = 0
  /\ matchConditions = NoFilter
  /\ excludeConditions = NoFilter
  /\ dirs = <<>>
  /\ dirsClosed = FALSE
  /\ results = <<>>
  /\ resultsClosed = FALSE
  /\ pending = 0
  /\ wpc = [w \in Workers |-> "off"]
  /\ queue = [w \in Workers |-> <<>>]
  /\ subdirs = [w \in Workers |-> <<>>]
  /\ senders = {}
  /\ mainpc = "wait"
  /\ panicked = FALSE
  /\ listCalls = [d \in DirKeys |-> 0]
  /\ enqueued = [d \in DirKeys |-> 0]
  /\ delivered = <<>>
  /\ expired = FALSE
  /\ input \in InputStreams \cup {FilesDeepFirst}
  /\ batchSize \in 0..MaxBatchSize
  /\ kafkaConfig \in KafkaConfigs
  /\ kafkaProducer = FALSE
  /\ stats = NewStats
  /\ fpc = "off"
  /\ fcur = <<>>
  /\ dbChan = <<>>
  /\ dbChanClosed = FALSE
  /\ kafkaChan = <<>>
  /\ kafkaChanClosed = FALSE
  /\ dpc = "off"
  /\ buffer = <<>>
  /\ totalSaved = 0
  /\ saving = 0
  /\ saves = <<>>
  /\ file_entries = <<>>
  /\ savedLog = -1
  /\ kpc = "off"
  /\ kcur = <<>>
  /\ kafkaWorkerPool = 0
  /\ tasks = {}
  /\ kafkaWg = 0
  /\ sent = {}
  /\ received = <<>>
  /\ dbEnq = <<>>
  /\ sinkEnq = <<>>
  /\ updated = <<>>
  /\ ppc = "open"
  /\ IdleDiff
  /\ IdleAux
  /\ startResult = "running"

\* what Start returns once the scan it ran has ended: the error of a full scan
\* is wrapped and returned, the results of an incremental scan are not read
StartResult(incremental, failed, panic) ==
  IF panic THEN "panic"
  ELSE IF incremental THEN "nil"
  ELSE IF failed THEN "error" ELSE "nil"

\* InitDatabase; on success InitKafkaProducer, the channels and the three
\* goroutines; on failure the error is returned
OpenFull ==
  /\ ppc = "open"
  /\ \E ok \in BOOLEAN :
       IF ok
       THEN /\ kafkaProducer' = ProducerOf(kafkaConfig)
            /\ fpc' = "recv"
            /\ dpc' = "recv"
            /\ kpc' = IF kafkaProducer' THEN "recv" ELSE "off"
            /\ kafkaWg' = IF kafkaProducer' THEN 1 ELSE 0
            /\ ppc' = "wait"
            /\ UNCHANGED startResult
       ELSE /\ ppc' = "failed"
            /\ startResult' = StartResult(FALSE, TRUE, FALSE)
            /\ UNCHANGED << kafkaProducer, fpc, dpc, kpc, kafkaWg >>
  /\ UNCHANGED << input, batchSize, kafkaConfig, stats, fcur, dbChan, dbChanClosed,
                  kafkaChan, kafkaChanClosed, buffer, totalSaved, saving, saves,
                  file_entries, savedLog, kcur, kafkaWorkerPool, tasks, sent, received,
                  dbEnq, sinkEnq, updated, results, resultsClosed >>
  /\ UNCHANGED << listVars, delivered, expired, diffVars, auxVars >>

\* the walker pushes its next entry onto scannedChan
Walk ==
  /\ ppc # "off" \/ ipc # "off"
  /\ input # <<>>
  /\ Len(results) < listQueueLen
  /\ results' = Append(results, Head(input))
  /\ input' = Tail(input)
  /\ UNCHANGED << batchSize, kafkaConfig, kafkaProducer, stats, fpc, fcur, dbChan,
                  dbChanClosed, kafkaChan, kafkaChanClosed, dpc, buffer, totalSaved, saving,
                  saves, file_entries, savedLog, kpc, kcur, kafkaWorkerPool, tasks, kafkaWg,
                  sent, received, dbEnq, sinkEnq, updated, ppc, resultsClosed >>
  /\ UNCHANGED << listVars, delivered, expired, diffVars, startResult, auxVars >>

\* the walker closes scannedChan
WalkClose ==
  /\ ppc # "off" \/ ipc # "off"
  /\ input = <<>>
  /\ ~resultsClosed
  /\ resultsClosed' = TRUE
  /\ UNCHANGED << input, batchSize, kafkaConfig, kafkaProducer, stats, fpc, fcur, dbChan,
                  dbChanClosed, kafkaChan, kafkaChanClosed, dpc, buffer, totalSaved, saving,
                  saves, file_entries, savedLog, kpc, kcur, kafkaWorkerPool, tasks, kafkaWg,
                  sent, received, dbEnq, sinkEnq, updated, ppc, results >>
  /\ UNCHANGED << listVars, delivered, expired, diffVars, startResult, auxVars >>

\* for fileInfo := range scannedChan, and the Found line
FileRecv ==
  /\ fpc = "recv"
  /\ results # <<>>
  /\ fcur' = Head(results)
  /\ results' = Tail(results)
  /\ received' = Append(received, Head(results))
  /\ fpc' = "db"
  /\ UNCHANGED << input, batchSize, kafkaConfig, kafkaProducer, stats, dbChan, dbChanClosed,
                  kafkaChan, kafkaChanClosed, dpc, buffer, totalSaved, saving, saves,
                  file_entries, savedLog, kpc, kcur, kafkaWorkerPool, tasks, kafkaWg, sent,
                  dbEnq, sinkEnq, updated, ppc, resultsClosed >>
  /\ UNCHANGED << listVars, delivered, expired, diffVars, startResult, auxVars >>

\* dbChan <- fileInfo
FileToDb ==
  /\ fpc = "db"
  /\ CanSend(dbChan, batchSize, dpc = "recv")
  /\ dbChan' = Append(dbChan, fcur)
  /\ dbEnq' = Append(dbEnq, fcur)
  /\ fpc' = IF ToSink(kafkaProducer, kafkaConfig) THEN "kafka" ELSE "stats"
  /\ UNCHANGED << input, batchSize, kafkaConfig, kafkaProducer, stats, fcur, dbChanClosed,
                  kafkaChan, kafkaChanClosed, dpc, buffer, totalSaved, saving, saves,
                  file_entries, savedLog, kpc, kcur, kafkaWorkerPool, tasks, kafkaWg, sent,
                  received, sinkEnq, updated, ppc, results, resultsClosed >>
  /\ UNCHANGED << listVars, delivered, expired, diffVars, startResult, auxVars >>

\* kafkaChan <- fileInfo
FileToKafka ==
  /\ fpc = "kafka"
  /\ CanSend(kafkaChan, kafkaConfig.Concurrency, kpc = "recv")
  /\ kafkaChan' = Append(kafkaChan, fcur)
  /\ sinkEnq' = Append(sinkEnq, fcur)
  /\ fpc' = "stats"
  /\ UNCHANGED << input, batchSize, kafkaConfig, kafkaProducer, stats, fcur, dbChan,
                  dbChanClosed, kafkaChanClosed, dpc, buffer, totalSaved, saving, saves,
                  file_entries, savedLog, kpc, kcur, kafkaWorkerPool, tasks, kafkaWg, sent,
                  received, dbEnq, updated, ppc, results, resultsClosed >>
  /\ UNCHANGED << listVars, delivered, expired, diffVars, startResult, auxVars >>

\* stats.Update(fileInfo)
FileStats ==
  /\ fpc = "stats"
  /\ stats' = Update(stats, fcur)
  /\ updated' = Append(updated, fcur)
  /\ fpc' = "recv"
  /\ UNCHANGED << input, batchSize, kafkaConfig, kafkaProducer, fcur, dbChan, dbChanClosed,
                  kafkaChan, kafkaChanClosed, dpc, buffer, totalSaved, saving, saves,
                  file_entries, savedLog, kpc, kcur, kafkaWorkerPool, tasks, kafkaWg, sent,
                  received, dbEnq, sinkEnq, ppc, results, resultsClosed >>
  /\ UNCHANGED << listVars, delivered, expired, diffVars, startResult, auxVars >>

\* scannedChan is closed and drained: close(dbChan), close(kafkaChan)
FileClose ==
  /\ fpc = "recv"
  /\ results = <<>>
  /\ resultsClosed
  /\ dbChanClosed' = TRUE
  /\ kafkaChanClosed' = kafkaProducer
  /\ fpc' = "done"
  /\ UNCHANGED << input, batchSize, kafkaConfig, kafkaProducer, stats, fcur, dbChan,
                  kafkaChan, dpc, buffer, totalSaved, saving, saves, file_entries, savedLog,
                  kpc, kcur, kafkaWorkerPool, tasks, kafkaWg, sent, received, dbEnq,
                  sinkEnq, updated, ppc, results, resultsClosed >>
  /\ UNCHANGED << listVars, delivered, expired, diffVars, startResult, auxVars >>

\* for fileInfo := range dbChan: append, and call SaveEntries on a full buffer
DbRecv ==
  /\ dpc = "recv"
  /\ dbChan # <<>>
  /\ dbChan' = Tail(dbChan)
  /\ buffer' = Append(buffer, Head(dbChan))
  /\ IF BatchFull(Len(buffer'), batchSize)
     THEN dpc' = "save" /\ saving' = saving + 1
     ELSE UNCHANGED << dpc, saving >>
  /\ UNCHANGED << input, batchSize, kafkaConfig, kafkaProducer, stats, fpc, fcur,
                  dbChanClosed, kafkaChan, kafkaChanClosed, totalSaved, saves, file_entries,
                  savedLog, kpc, kcur, kafkaWorkerPool, tasks, kafkaWg, sent, received,
                  dbEnq, sinkEnq, updated, ppc, results, resultsClosed >>
  /\ UNCHANGED << listVars, delivered, expired, diffVars, startResult, auxVars >>

\* SaveEntries returns in the loop
SaveReturn ==
  /\ dpc = "save"
  /\ \E ok \in BOOLEAN :
       /\ file_entries' = SaveEntries(file_entries, buffer, ok)
       /\ saves' = Append(saves, [batch |-> buffer, ok |-> ok, final |-> FALSE])
       /\ totalSaved' = SavedAfter(totalSaved, Len(buffer), ok)
  /\ buffer' = <<>>
  /\ saving' = saving - 1
  /\ dpc' = "recv"
  /\ UNCHANGED << input, batchSize, kafkaConfig, kafkaProducer, stats, fpc, fcur, dbChan,
                  dbChanClosed, kafkaChan, kafkaChanClosed, savedLog, kpc, kcur,
                  kafkaWorkerPool, tasks, kafkaWg, sent, received, dbEnq, sinkEnq, updated,
                  ppc, results, resultsClosed >>
  /\ UNCHANGED << listVars, delivered, expired, diffVars, startResult, auxVars >>

\* dbChan is closed and drained: SaveEntries is called for a non-empty residue
DbDrained ==
  /\ dpc = "recv"
  /\ dbChan = <<>>
  /\ dbChanClosed
  /\ IF Len(buffer) > 0
     THEN dpc' = "final" /\ saving' = saving + 1
     ELSE dpc' = "log" /\ UNCHANGED saving
  /\ UNCHANGED << input, batchSize, kafkaConfig, kafkaProducer, stats, fpc, fcur, dbChan,
                  dbChanClosed, kafkaChan, kafkaChanClosed, buffer, totalSaved, saves,
                  file_entries, savedLog, kpc, kcur, kafkaWorkerPool, tasks, kafkaWg, sent,
                  received, dbEnq, sinkEnq, updated, ppc, results, resultsClosed >>
  /\ UNCHANGED << listVars, delivered, expired, diffVars, startResult, auxVars >>

\* SaveEntries returns for the residue
FinalReturn ==
  /\ dpc = "final"
  /\ \E ok \in BOOLEAN :
       /\ file_entries' = SaveEntries(file_entries, buffer, ok)
       /\ saves' = Append(saves, [batch |-> buffer, ok |-> ok, final |-> TRUE])
       /\ totalSaved' = SavedAfter(totalSaved, Len(buffer), ok)
  /\ saving' = saving - 1
  /\ dpc' = "log"
  /\ UNCHANGED << input, batchSize, kafkaConfig, kafkaProducer, stats, fpc, fcur, dbChan,
                  dbChanClosed, kafkaChan, kafkaChanClosed, buffer, savedLog, kpc, kcur,
                  kafkaWorkerPool, tasks, kafkaWg, sent, received, dbEnq, sinkEnq, updated,
                  ppc, results, resultsClosed >>
  /\ UNCHANGED << listVars, delivered, expired, diffVars, startResult, auxVars >>

\* log.Infof("Successfully saved total %d entries to database"); dbWg.Done()
DbLog ==
  /\ dpc = "log"
  /\ savedLog' = totalSaved
  /\ dpc' = "done"
  /\ UNCHANGED << input, batchSize, kafkaConfig, kafkaProducer, stats, fpc, fcur, dbChan,
                  dbChanClosed, kafkaChan, kafkaChanClosed, buffer, totalSaved, saving,
                  saves, file_entries, kpc, kcur, kafkaWorkerPool, tasks, kafkaWg, sent,
                  received, dbEnq, sinkEnq, updated, ppc, results, resultsClosed >>
  /\ UNCHANGED << listVars, delivered, expired, diffVars, startResult, auxVars >>

\* for fileInfo := range kafkaChan; kafkaWg.Add(1)
SinkRecv ==
  /\ kpc = "recv"
  /\ kafkaChan # <<>>
  /\ kcur' = Head(kafkaChan)
  /\ kafkaChan' = Tail(kafkaChan)
  /\ kafkaWg' = kafkaWg + 1
  /\ kpc' = "acquire"
  /\ UNCHANGED << input, batchSize, kafkaConfig, kafkaProducer, stats, fpc, fcur, dbChan,
                  dbChanClosed, kafkaChanClosed, dpc, buffer, totalSaved, saving, saves,
                  file_entries, savedLog, kafkaWorkerPool, tasks, sent, received, dbEnq,
                  sinkEnq, updated, ppc, results, resultsClosed >>
  /\ UNCHANGED << listVars, delivered, expired, diffVars, startResult, auxVars >>

\* kafkaWorkerPool <- struct{}{}; go func(fi)
SinkAcquire ==
  /\ kpc = "acquire"
  /\ PermitFree(kafkaWorkerPool, kafkaConfig)
  /\ kafkaWorkerPool' = kafkaWorkerPool + 1
  /\ tasks' = tasks \cup {[fi |-> kcur, phase |-> "send"]}
  /\ kpc' = "recv"
  /\ UNCHANGED << input, batchSize, kafkaConfig, kafkaProducer, stats, fpc, fcur, dbChan,
                  dbChanClosed, kafkaChan, kafkaChanClosed, dpc, buffer, totalSaved, saving,
                  saves, file_entries, savedLog, kcur, kafkaWg, sent, received, dbEnq,
                  sinkEnq, updated, ppc, results, resultsClosed >>
  /\ UNCHANGED << listVars, delivered, expired, diffVars, startResult, auxVars >>

\* kafkaChan is closed and drained: the coordinator's kafkaWg.Done()
SinkExit ==
  /\ kpc = "recv"
  /\ kafkaChan = <<>>
  /\ kafkaChanClosed
  /\ kafkaWg' = kafkaWg - 1
  /\ kpc' = "done"
  /\ UNCHANGED << input, batchSize, kafkaConfig, kafkaProducer, stats, fpc, fcur, dbChan,
                  dbChanClosed, kafkaChan, kafkaChanClosed, dpc, buffer, totalSaved, saving,
                  saves, file_entries, savedLog, kcur, kafkaWorkerPool, tasks, sent,
                  received, dbEnq, sinkEnq, updated, ppc, results, resultsClosed >>
  /\ UNCHANGED << listVars, delivered, expired, diffVars, startResult, auxVars >>

\* kafkaProducer.SendMessage returns (with or without error) in a send goroutine
TaskSend(t) ==
  /\ t \in tasks
  /\ t.phase = "send"
  /\ sent' = sent \cup {t.fi}
  /\ tasks' = (tasks \ {t}) \cup {[t EXCEPT !.phase = "release"]}
  /\ UNCHANGED << input, batchSize, kafkaConfig, kafkaProducer, stats, fpc, fcur, dbChan,
                  dbChanClosed, kafkaChan, kafkaChanClosed, dpc, buffer, totalSaved, saving,
                  saves, file_entries, savedLog, kpc, kcur, kafkaWorkerPool, kafkaWg,
                  received, dbEnq, sinkEnq, updated, ppc, results, resultsClosed >>
  /\ UNCHANGED << listVars, delivered, expired, diffVars, startResult, auxVars >>

\* the deferred calls of a send goroutine: <-kafkaWorkerPool, kafkaWg.Done()
TaskRelease(t) ==
  /\ t \in tasks
  /\ t.phase = "release"
  /\ kafkaWorkerPool' = kafkaWorkerPool - 1
  /\ kafkaWg' = kafkaWg - 1
  /\ tasks' = tasks \ {t}
  /\ UNCHANGED << input, batchSize, kafkaConfig, kafkaProducer, stats, fpc, fcur, dbChan,
                  dbChanClosed, kafkaChan, kafkaChanClosed, dpc, buffer, totalSaved, saving,
                  saves, file_entries, savedLog, kpc, kcur, sent, received, dbEnq, sinkEnq,
                  updated, ppc, results, resultsClosed >>
  /\ UNCHANGED << listVars, delivered, expired, diffVars, startResult, auxVars >>

SendMessages == \E t \in tasks : TaskSend(t)

ReleasePermits == \E t \in tasks : TaskRelease(t)

\* mutant: the Sink wait group is not waited for
AllDone_NoKafkaWait(f, d, producer, wg) == f = "done" /\ d = "done"

\* fileWg.Wait(); dbWg.Wait(); if kafkaProducer != nil { kafkaWg.Wait() }
AllDone(f, d, producer, wg) == f = "done" /\ d = "done" /\ (producer => wg = 0)

\* the waits, then the summary: return nil, or the panic of the summary
Return ==
  /\ ppc = "wait"
  /\ AllDone(fpc, dpc, kafkaProducer, kafkaWg)
  /\ LET panic == GenerateConsoleReportSummary(stats, file_entries).panic
     IN /\ ppc' = IF panic THEN "panicked" ELSE "returned"
        /\ startResult' = StartResult(FALSE, FALSE, panic)
  /\ UNCHANGED << input, batchSize, kafkaConfig, kafkaProducer, stats, fpc, fcur, dbChan,
                  dbChanClosed, kafkaChan, kafkaChanClosed, dpc, buffer, totalSaved, saving,
                  saves, file_entries, savedLog, kpc, kcur, kafkaWorkerPool, tasks, kafkaWg,
                  sent, received, dbEnq, sinkEnq, updated, results, resultsClosed >>
  /\ UNCHANGED << listVars, delivered, expired, diffVars, auxVars >>

NextFull ==
  \/ OpenFull
  \/ Walk
  \/ WalkClose
  \/ FileRecv
  \/ FileToDb
  \/ FileToKafka
  \/ FileStats
  \/ FileClose
  \/ DbRecv
  \/ SaveReturn
  \/ DbDrained
  \/ FinalReturn
  \/ DbLog
  \/ SinkRecv
  \/ SinkAcquire
  \/ SinkExit
  \/ SendMessages
  \/ ReleasePermits
  \/ Return

SpecFull == InitFull /\ [][NextFull]_vars

\* the goroutines of the scan are scheduled, and SaveEntries and SendMessage
\* return: while a step is possible, a step is taken
FairSpecFull == SpecFull /\ WF_vars(NextFull)

\* ------------------------------------------------ Stats taken on its own
\* neither the walker nor a scan is running
IdleScan ==
  /\ jobsDir = NoJobsDir
  /\ storage = [tree |-> {}, fail |-> {}]
  /\ concurrency = 1
  /\ depth = 0
  /\ matchConditions = NoFilter
  /\ excludeConditions = NoFilter
  /\ dirs = <<>>
  /\ dirsClosed = FALSE
  /\ results = <<>>
  /\ resultsClosed = FALSE
  /\ pending = 0
  /\ wpc = [w \in Workers |-> "off"]
  /\ queue = [w \in Workers |-> <<>>]
  /\ subdirs = [w \in Workers |-> <<>>]
  /\ senders = {}
  /\ mainpc = "wait"
  /\ panicked = FALSE
  /\ listCalls = [d \in DirKeys |-> 0]
  /\ enqueued = [d \in DirKeys |-> 0]
  /\ delivered = <<>>
  /\ expired = FALSE
  /\ IdlePipeline
  /\ IdleDiff
  /\ startResult = "running"

\* the tree /a/f1 (100 B), /a/f2 (2 KiB), /b/g1 (5 MiB), /b/c/h (10 B) with its
\* three directories
ExampleTree ==
  { FileInfo(<< <<"a">> >>, TRUE, 4, 1, FALSE),
    FileInfo(<< <<"a">>, <<"f", "1">> >>, FALSE, 100, 1, FALSE),
    FileInfo(<< <<"a">>, <<"f", "2">> >>, FALSE, 2048, 1, FALSE),
    FileInfo(<< <<"b">> >>, TRUE, 4, 1, FALSE),
    FileInfo(<< <<"b">>, <<"g", "1">> >>, FALSE, 5 * 1024 * 1024, 1, FALSE),
    FileInfo(<< <<"b">>, <<"c">> >>, TRUE, 4, 1, FALSE),
    FileInfo(<< <<"b">>, <<"c">>, <<"h">> >>, FALSE, 10, 1, FALSE) }

\* the entries the scanned trees are made of: the example's, a symbolic link
\* to a file and one to a directory
StatEntries ==
  ExampleTree \cup
    { FileInfo(<< <<"b">>, <<"c">>, <<"l", "n", "k">> >>, FALSE, 7, 1, TRUE),
      FileInfo(<< <<"s">> >>, TRUE, 4, 1, TRUE) }

\* a tree is scanned with no filter: todo holds the entries the dispatcher
\* has still to receive
InitStats ==
  /\ IdleScan
  /\ \E tree \in SUBSET StatEntries : arg = [tree |-> tree, todo |-> tree]
  /\ ret = <<>>

\* the dispatcher receives the next entry, in whatever order the walk
\* delivers them, and calls stats.Update
StatsUpdate ==
  /\ arg # <<>>
  /\ \E e \in arg.todo :
       /\ stats' = Update(stats, e)
       /\ arg' = [arg EXCEPT !.todo = @ \ {e}]
  /\ ret' = <<>>
  /\ UNCHANGED << input, batchSize, kafkaConfig, kafkaProducer, fpc, fcur, dbChan,
                  dbChanClosed, kafkaChan, kafkaChanClosed, dpc, buffer, totalSaved, saving,
                  saves, file_entries, savedLog, kpc, kcur, kafkaWorkerPool, tasks, kafkaWg,
                  sent, received, dbEnq, sinkEnq, updated, ppc >>
  /\ UNCHANGED << walkVars, delivered, expired, diffVars, startResult, jobsDir >>

\* the getters are called between two updates or after the last
StatsRead ==
  /\ arg # <<>>
  /\ ret = <<>>
  /\ ret' = [GetFileCount |-> stats.fileCount,
             GetDirCount |-> stats.dirCount,
             GetTotalSize |-> stats.totalSize,
             GetTotalSymlink |-> stats.totalSymlink,
             GetAvgNameLength |-> GetAvgNameLength(stats),
             GetAvgDirDepth |-> GetAvgDirDepth(stats),
             GetMaxDirDepth |-> stats.maxDirDepth]
  /\ UNCHANGED << arg, walkVars, delivered, expired, pipeVars, diffVars, startResult, jobsDir >>

NextStats ==
  \/ StatsUpdate
  \/ StatsRead

SpecStats == InitStats /\ [][NextStats]_vars

\* -------------------------------------- the filter package taken on its own
\* every string of at most n characters of the alphabet A
Strings(A, n) == UNION {[1..k -> A] : k \in 0..n}

\* the characters of the patterns and of the values matchString is given
LikePatternChars == {"a", "%", "_", ".", "*", "("}

LikeValueChars == {"a", "b", "."}

\* the characters of the names compared by a name clause
NameChars == {"a", "n", "d", "A"}

\* "modified < 0.5"
ExprModifiedHalf ==
  << "m", "o", "d", "i", "f", "i", "e", "d", " ", "<", " ", "0", ".", "5" >>

\* "modified < 1 and type==file"
ExprModifiedOneFile ==
  << "m", "o", "d", "i", "f", "i", "e", "d", " ", "<", " ", "1", " ", "a", "n", "d",
     " ", "t", "y", "p", "e", "=", "=", "f", "i", "l", "e" >>

\* "modified > 1 and type==file"
ExprRecentFile ==
  << "m", "o", "d", "i", "f", "i", "e", "d", " ", ">", " ", "1", " ", "a", "n", "d",
     " ", "t", "y", "p", "e", "=", "=", "f", "i", "l", "e" >>

\* "Size >= 1K AND type == 'file'"
ExprBigFile ==
  << "S", "i", "z", "e", " ", ">", "=", " ", "1", "K", " ", "A", "N", "D", " ", "t",
     "y", "p", "e", " ", "=", "=", " ", "'", "f", "i", "l", "e", "'" >>

\* " and  AND "
ExprBlank ==
  << " ", "a", "n", "d", " ", " ", "A", "N", "D", " " >>

\* "name == 'V'"
ExprNameEquals(V) ==
  << "n", "a", "m", "e", " ", "=", "=", " ", "'" >> \o V \o << "'" >>

\* time.Now() when the scan starts, in half hours after the oldest mtime
ScanStart == Hour + 1

Times == 0..(ScanStart + MaxTick)

\* the entries the time clauses are evaluated on
TimedEntries ==
  {FileInfo(<< <<"f", "1">> >>, isDir, 2048, mtime, FALSE) :
     isDir \in BOOLEAN, mtime \in Times}

\* the entries a name clause for V is evaluated on
NamedEntries(V) ==
  {FileInfo(<< name >>, FALSE, 1, 0, FALSE) : name \in {V, ToLower(V), <<"n">>} \ {<<>>}}

\* the compiled filters IsSatisfied is called on directly
EvalFilters ==
  { NoFilter, TypeIsDir, BigFile, NameHasA, NameLikeX,
    [conditions |-> << Condition("modified", "<", Hour) >>],
    [conditions |-> << Condition("modified", ">", Hour) >>],
    [conditions |-> << Condition("modified", "<", 1) >>],
    [conditions |-> << Condition("modified", ">", 1) >>],
    [conditions |-> << Condition("type", "==", <<"f", "i", "l", "e">>),
                       Condition("modified", ">", Hour),
                       Condition("size", ">=", 2) >>],
    [conditions |-> << Condition("size", "<", 0),
                       Condition("type", "!=", <<"d", "i", "r">>) >>] }

\* the entries they are called on
EvalEntries ==
  TimedEntries \cup Range(WalkStream)

\* names holds V when the expression is name == 'V'
FilterCall(kind, expr, names, f, fileInfo) ==
  [kind |-> kind, expr |-> expr, names |-> names, filter |-> f, fileInfo |-> fileInfo,
   start |-> ScanStart, clock |-> ScanStart]

\* one call: matchString with "like", IsSatisfied of a compiled filter, or
\* the compilation of a --match expression followed by IsSatisfied
InitFilter ==
  /\ IdleScan
  /\ ret = <<>>
  /\ \/ \E value \in Strings(LikeValueChars, MaxLikeLen),
           pattern \in Strings(LikePatternChars, MaxLikeLen) :
          arg = [kind |-> "like", value |-> value, pattern |-> pattern]
     \/ \E f \in EvalFilters, fileInfo \in EvalEntries :
          arg = FilterCall("eval", <<>>, {}, f, fileInfo)
     \/ \E expr \in {ExprModifiedHalf, ExprModifiedOneFile, ExprRecentFile, ExprBigFile,
                     ExprBlank},
           fileInfo \in TimedEntries :
          arg = FilterCall("compile", expr, {}, NoFilter, fileInfo)
     \/ \E V \in Strings(NameChars, MaxNameLen) : \E fileInfo \in NamedEntries(V) :
          arg = FilterCall("compile", ExprNameEquals(V), {V}, NoFilter, fileInfo)

\* half an hour passes before the call is made
Tick ==
  /\ arg # <<>>
  /\ arg.kind \in {"compile", "eval"}
  /\ ret = <<>>
  /\ arg.clock < arg.start + MaxTick
  /\ arg' = [arg EXCEPT !.clock = @ + 1]
  /\ UNCHANGED << ret, walkVars, delivered, expired, pipeVars, diffVars, startResult, jobsDir >>

\* scan.ParseConditions in the command, then NewConditionFilter in Start
Compile ==
  /\ arg # <<>>
  /\ arg.kind = "compile"
  /\ ret = <<>>
  /\ LET f == NewConditionFilter(ParseConditions(arg.expr))
     IN IF f.err
        THEN ret' = [err |-> TRUE] /\ UNCHANGED arg
        ELSE /\ arg' = [arg EXCEPT !.kind = "eval", !.filter = [conditions |-> f.conditions]]
             /\ UNCHANGED ret
  /\ UNCHANGED << walkVars, delivered, expired, pipeVars, diffVars, startResult, jobsDir >>

\* mutant: the time of the scan's start is used
Now_AtStart(start, clock) == start

\* now := time.Now(), read by the evaluation itself
Now(start, clock) == clock

\* IsSatisfied(fileInfo)
Evaluate ==
  /\ arg # <<>>
  /\ arg.kind = "eval"
  /\ ret = <<>>
  /\ LET now == Now(arg.start, arg.clock)
         out == IsSatisfiedLoop(arg.filter, arg.fileInfo, now, 1)
     IN ret' = [err |-> FALSE, result |-> out.result, evaluated |-> out.evaluated]
  /\ UNCHANGED << arg, walkVars, delivered, expired, pipeVars, diffVars, startResult, jobsDir >>

\* matchString(value, "like", pattern)
MatchLike ==
  /\ arg # <<>>
  /\ arg.kind = "like"
  /\ ret = <<>>
  /\ ret' = [err |-> FALSE, matched |-> matchString(arg.value, "like", arg.pattern)]
  /\ UNCHANGED << arg, walkVars, delivered, expired, pipeVars, diffVars, startResult, jobsDir >>

NextFilter ==
  \/ Tick
  \/ Compile
  \/ Evaluate
  \/ MatchLike

SpecFilter == InitFilter /\ [][NextFilter]_vars

\* ------------------------------------------- the parsers taken on their own
\* the characters of the numerals parseSize is given
NumeralChars == {"0", "1", "5", "."}

\* what follows the numeral: nothing, a unit in either case, something else
SizeSuffixes ==
  {<<>>, <<"k">>, <<"K">>, <<"m">>, <<"M">>, <<"g">>, <<"G">>, <<"t">>, <<"T">>, <<"x">>, <<"b">>, <<"k", "b">>, <<" ", "k">>}

\* "0.001T", "-1", "1e3", "K"
OtherSizes ==
  {<<"0", ".", "0", "0", "1", "T">>, <<"-", "1">>, <<"1", "e", "3">>, <<"K">>}

RECURSIVE Pow2(_)
Pow2(n) == IF n = 0 THEN 1 ELSE 2 * Pow2(n - 1)

\* the size the string writes is below 2^31, the range of the integers here
SizeInRange(sizeStr) ==
  LET str == TrimSpace(sizeStr)
      shift == multipliers(ToLower(<<Last(str)>>)[1])
      num == ParseFloat(Front(str))
  IN \/ str = <<>>
     \/ ToLower(<<Last(str)>>)[1] \notin {"k", "m", "g", "t"}
     \/ num.err
     \/ IF shift <= 30
        THEN num.num \div num.den < Pow2(31 - shift)
        ELSE num.num \div num.den = 0 /\ (num.num % num.den) * Pow2(shift - 31) < num.den

SizeStrings ==
  {s \in {numeral \o suffix : numeral \in Strings(NumeralChars, MaxNumLen),
                              suffix \in SizeSuffixes} \cup OtherSizes :
     SizeInRange(s)}

\* the parts clauses are put together from
ClauseProperties ==
  {<<"n", "a", "m", "e">>, <<"t", "y", "p", "e">>, <<"s", "i", "z", "e">>, <<"m", "o", "d", "i", "f", "i", "e", "d">>, <<"o", "w", "n", "e", "r">>, <<>>}

ClauseOperators ==
  {<<"=", "=">>, <<">">>, <<">", "=">>, <<"i", "n">>, <<"l", "i", "k", "e">>, <<"~">>, <<>>}

ClauseValues ==
  {<<>>, <<"x">>, <<"1">>, <<"1", "K">>, <<"1", "X">>, <<"1", ".", "5">>, <<"1", ".", ".", "5">>}

\* "", "size >= 1 AND "
ClauseLeads ==
  {<<>>, <<"s", "i", "z", "e", " ", ">", "=", " ", "1", " ", "A", "N", "D", " ">>}

\* the entries the compiled clauses are evaluated on
ParsedEntries ==
  {FileInfo(<< <<"x">> >>, isDir, size, 0, FALSE) : isDir \in BOOLEAN, size \in {1, 1024, 2048}}

\* the conditions IsSatisfied is given directly, as the package's tests build them
DirectConditions ==
  {Condition(property, operator,
             CASE property = "size" -> 1024 [] property = "modified" -> Hour [] OTHER -> <<"x">>) :
     property \in {"name", "path", "type", "size", "modified", "owner"},
     operator \in {"==", "!=", ">", "<", ">=", "<=", "in", "like", "~"}}

\* size >= 0, which every entry satisfies
AnySize == Condition("size", ">=", 0)

\* the expression lead property operator value, compiled and then evaluated
ClauseCall(lead, property, operator, value, fileInfo) ==
  [kind |-> "compile", expr |-> lead \o property \o <<" ">> \o operator \o <<" ">> \o value,
   names |-> {}, filter |-> NoFilter, fileInfo |-> fileInfo, start |-> ScanStart,
   clock |-> ScanStart,
   clause |-> [property |-> property, operator |-> operator, value |-> value]]

\* one call: parseSize, the compilation of an expression followed by
\* IsSatisfied, or IsSatisfied of a filter built by hand
InitParse ==
  /\ IdleScan
  /\ ret = <<>>
  /\ \/ \E sizeStr \in SizeStrings : arg = [kind |-> "size", sizeStr |-> sizeStr]
     \/ \E lead \in ClauseLeads, property \in ClauseProperties, operator \in ClauseOperators,
           value \in ClauseValues, fileInfo \in ParsedEntries :
          /\ property \o operator \o value # <<>>
          /\ arg = ClauseCall(lead, property, operator, value, fileInfo)
     \/ \E cond \in DirectConditions, fileInfo \in ParsedEntries :
        \E conditions \in {<< cond >>, << AnySize, cond >>, << cond, AnySize >>} :
          arg = FilterCall("eval", <<>>, {}, [conditions |-> conditions], fileInfo)

\* parseSize(sizeStr)
ParseSize ==
  /\ arg # <<>>
  /\ arg.kind = "size"
  /\ ret = <<>>
  /\ ret' = parseSize(arg.sizeStr)
  /\ UNCHANGED << arg, walkVars, delivered, expired, pipeVars, diffVars, startResult, jobsDir >>

NextParse ==
  \/ ParseSize
  \/ Compile
  \/ Evaluate

SpecParse == InitParse /\ [][NextParse]_vars

\* ------------------------------------------------ the scan command run again
\* "size 1K", which has no operator
ExprNoOperator == <<"s", "i", "z", "e", " ", "1", "K">>

\* the --match expressions of the invocations
MatchExprs == {<<>>, ExprBigFile, ExprNoOperator}

\* isIncrementalScan: an existing job directory means an incremental scan,
\* a missing one is created and means a full scan
isIncrementalScan(dir) ==
  IF dir.exists
  THEN [jobsDir |-> dir, incrementalScan |-> TRUE]
  ELSE [jobsDir |-> [dir EXCEPT !.exists = TRUE], incrementalScan |-> FALSE]

\* Start up to the call of ListAll: the error it returns, "nil" when it goes on
StartChecks(storageOk, match) ==
  IF ~storageOk THEN "failed to create storage"
  ELSE IF NewConditionFilter(ParseConditions(match)).err
       THEN "failed to create match conditions"
       ELSE "nil"

\* one invocation of scan --id with the same id: the job directory is set up,
\* then Start runs the scan in the mode the directory decided; a full scan
\* creates file_entries in InitDatabase and saves the entries of the stream,
\* and with no file on the stream it panics in the report
ScanCommand ==
  /\ Len(ret) < MaxInvocations
  /\ \E storageOk \in BOOLEAN, match \in MatchExprs, dbOk \in BOOLEAN, files \in 0..1 :
       LET setup == isIncrementalScan(jobsDir)
           checks == StartChecks(storageOk, match)
           full == checks = "nil" /\ ~setup.incrementalScan
           result ==
             IF checks # "nil" THEN checks
             ELSE IF setup.incrementalScan THEN StartResult(TRUE, FALSE, FALSE)
             ELSE IF ~dbOk THEN "failed to process files"
             ELSE StartResult(FALSE, FALSE, files = 0)
       IN /\ jobsDir' = [setup.jobsDir EXCEPT !.file_entries = @ \/ (full /\ dbOk)]
          /\ ret' = Append(ret, [incrementalScan |-> setup.incrementalScan,
                                 match |-> match, files |-> files, result |-> result,
                                 catalog |-> jobsDir.file_entries])
  /\ UNCHANGED << arg, walkVars, delivered, expired, pipeVars, diffVars, startResult >>

InitJob ==
  /\ IdleScan
  /\ arg = <<>>
  /\ ret = <<>>

NextJob == ScanCommand

SpecJob == InitJob /\ [][NextJob]_vars

\* ---------------------------------------------- a full scan run again
Reverse(s) == [i \in 1..Len(s) |-> s[Len(s) + 1 - i]]

\* the orders explored in which the walk of the same tree delivers the
\* entries of s: which worker's send comes first is the scheduler's choice
Orders(s) == {s, Reverse(s)}

\* mutant: the scan writes to the catalog of the earlier job
JobCatalog_Reused(rows) == rows

\* the catalog a further full scan opens: the command runs a full scan only
\* under a job directory it has just created (an existing one makes the scan
\* incremental), so InitDatabase creates index.db and an empty file_entries
JobCatalog(rows) == <<>>

InitRescan ==
  /\ InitFull
  /\ ~kafkaConfig.Enabled

\* the command is run again on the same tree under a new job id: a full scan
\* whose walk may deliver the entries in any order, with any batch size
Rescan ==
  /\ ppc \in {"returned", "panicked"}
  /\ runs = <<>>
  /\ runs' = Append(runs, [catalog |-> file_entries,
                           faulted |-> \E i \in 1..Len(saves) : ~saves[i].ok,
                           batches |-> Len(saves)])
  /\ file_entries' = JobCatalog(file_entries)
  /\ input' \in Orders(received)
  /\ batchSize' \in 0..MaxBatchSize
  /\ kafkaProducer' = FALSE
  /\ stats' = NewStats
  /\ fpc' = "off"
  /\ fcur' = <<>>
  /\ dbChan' = <<>>
  /\ dbChanClosed' = FALSE
  /\ kafkaChan' = <<>>
  /\ kafkaChanClosed' = FALSE
  /\ dpc' = "off"
  /\ buffer' = <<>>
  /\ totalSaved' = 0
  /\ saving' = 0
  /\ saves' = <<>>
  /\ savedLog' = -1
  /\ kpc' = "off"
  /\ kcur' = <<>>
  /\ kafkaWorkerPool' = 0
  /\ tasks' = {}
  /\ kafkaWg' = 0
  /\ sent' = {}
  /\ received' = <<>>
  /\ dbEnq' = <<>>
  /\ sinkEnq' = <<>>
  /\ updated' = <<>>
  /\ results' = <<>>
  /\ resultsClosed' = FALSE
  /\ ppc' = "open"
  /\ startResult' = "running"
  /\ UNCHANGED << kafkaConfig, ipc, collisions, filter, bpc, bcur, newFilesChan,
                  newFilesChanClosed, candidateChan, candidateChanClosed, cpc, newFiles,
                  tables, tempTableName, newFileChan, newFileChanClosed, changedFileChan,
                  changedFileChanClosed >>
  /\ UNCHANGED << listVars, delivered, expired, auxVars >>

NextRescan ==
  \/ OpenFull
  \/ Walk
  \/ WalkClose
  \/ FileRecv
  \/ FileToDb
  \/ FileStats
  \/ FileClose
  \/ DbRecv
  \/ SaveReturn
  \/ DbDrained
  \/ FinalReturn
  \/ DbLog
  \/ Return
  \/ Rescan

SpecRescan == InitRescan /\ [][NextRescan]_vars

\* --------------------------------------- ProcessFilesForIncrementalScan
\* how the catalog row of an entry differs from the entry now scanned
Earlier(o, kind) ==
  CASE kind = "same" -> o
    [] kind = "mtime" -> [o EXCEPT !.mtime = @ + 1]
    [] kind = "ctime" -> [o EXCEPT !.ctime = @ + 1]
    [] kind = "both" -> [o EXCEPT !.mtime = @ + 1, !.ctime = @ + 1]

\* per entry of WalkStream: absent from the earlier full scan, or how it was
Histories ==
  { [i \in 1..Len(WalkStream) |-> "absent"],
    [i \in 1..Len(WalkStream) |-> "same"],
    << "same", "absent", "absent", "ctime", "mtime", "absent", "same" >>,
    << "absent", "ctime", "both", "same", "same", "same", "absent" >> }

RECURSIVE CatalogFrom(_, _)
\* file_entries as the earlier full scan left it, from entry i on
CatalogFrom(h, i) ==
  IF i > Len(WalkStream) THEN <<>>
  ELSE (IF h[i] = "absent" THEN <<>>
        ELSE << ProcessFileInfo(Earlier(WalkStream[i], h[i])) >>) \o CatalogFrom(h, i + 1)

Catalogs == {CatalogFrom(h, 1) : h \in Histories}

\* the sets of paths explored for which the bloom filter answers true without
\* their having been added: none, one, every path
CollisionSets ==
  { {}, {PathString(KF)}, {PathString(Key(WalkStream[i])) : i \in 1..Len(WalkStream)} }

\* the path column of a table
Paths(rows) == {rows[i].path : i \in 1..Len(rows)}

\* filter.TestString(item.Key())
TestString(f, key) == PathString(key) \in f

\* "temp_files_" + uuid: a name no earlier run has drawn
NewTableName(n) == n

\* mutant: the loader passes the empty table name
LoadTable_Default(name) == 0

\* the table loadCandidatesToTemp saves to; SaveEntries takes the empty name
\* (0 here) for file_entries
LoadTable(name) == name

\* mutant: every temp row counts as new
Unmatched_Always(t, canon) == TRUE

\* LEFT JOIN file_entries f ON t.path = f.path WHERE f.path IS NULL
Unmatched(t, canon) == \A i \in 1..Len(canon) : canon[i].path # t.path

\* mutant: only mtime is compared
Differs_MtimeOnly(t, f) == t.mtime # f.mtime

\* mutant: every joined row counts as changed
Differs_Always(t, f) == TRUE

\* WHERE t.ctime != f.ctime OR t.mtime != f.mtime
Differs(t, f) == t.ctime # f.ctime \/ t.mtime # f.mtime

\* SQLiteDB.QueryExactNewFiles
QueryExactNewFiles(temp, canon) == SelectSeq(temp, LAMBDA t : Unmatched(t, canon))

RECURSIVE QueryChangedFiles(_, _)
\* SQLiteDB.QueryChangedFiles: one output row per joined pair that differs
QueryChangedFiles(temp, canon) ==
  IF temp = <<>> THEN <<>>
  ELSE LET t == Head(temp)
           joined == SelectSeq(canon, LAMBDA f : f.path = t.path /\ Differs(t, f))
       IN [i \in 1..Len(joined) |-> t] \o QueryChangedFiles(Tail(temp), canon)

\* the variables of the full scan the incremental scan does not touch
fullOnly ==
  << kafkaConfig, kafkaProducer, stats, fpc, fcur, dbChan, dbChanClosed, kafkaChan,
     kafkaChanClosed, dpc, savedLog, kpc, kcur, kafkaWorkerPool, tasks, kafkaWg, sent,
     dbEnq, sinkEnq, updated, ppc >>

InitDiff ==
  /\ storage = [tree |-> {}, fail |-> {}]
  /\ concurrency = 1
  /\ depth = 0
  /\ matchConditions = NoFilter
  /\ excludeConditions = NoFilter
  /\ dirs = <<>>
  /\ dirsClosed = FALSE
  /\ results = <<>>
  /\ resultsClosed = FALSE
  /\ pending = 0
  /\ wpc = [w \in Workers |-> "off"]
  /\ queue = [w \in Workers |-> <<>>]
  /\ subdirs = [w \in Workers |-> <<>>]
  /\ senders = {}
  /\ mainpc = "wait"
  /\ panicked = FALSE
  /\ listCalls = [d \in DirKeys |-> 0]
  /\ enqueued = [d \in DirKeys |-> 0]
  /\ delivered = <<>>
  /\ expired = FALSE
  /\ input \in InputStreams
  /\ batchSize \in 0..MaxBatchSize
  /\ file_entries \in Catalogs
  /\ kafkaConfig = [GoodKafka(0) EXCEPT !.Enabled = FALSE]
  /\ kafkaProducer = FALSE
  /\ stats = NewStats
  /\ fpc = "off"
  /\ fcur = <<>>
  /\ dbChan = <<>>
  /\ dbChanClosed = FALSE
  /\ kafkaChan = <<>>
  /\ kafkaChanClosed = FALSE
  /\ dpc = "off"
  /\ buffer = <<>>
  /\ totalSaved = 0
  /\ saving = 0
  /\ saves = <<>>
  /\ savedLog = -1
  /\ kpc = "off"
  /\ kcur = <<>>
  /\ kafkaWorkerPool = 0
  /\ tasks = {}
  /\ kafkaWg = 0
  /\ sent = {}
  /\ received = <<>>
  /\ dbEnq = <<>>
  /\ sinkEnq = <<>>
  /\ updated = <<>>
  /\ ppc = "off"
  /\ startResult = "running"
  /\ ipc = "open"
  /\ collisions \in CollisionSets
  /\ filter = {}
  /\ bpc = "off"
  /\ bcur = <<>>
  /\ newFilesChan = <<>>
  /\ newFilesChanClosed = FALSE
  /\ candidateChan = <<>>
  /\ candidateChanClosed = FALSE
  /\ cpc = "off"
  /\ newFiles = <<>>
  /\ tables = NoTables
  /\ tempTableName = 0
  /\ newFileChan = <<>>
  /\ newFileChanClosed = FALSE
  /\ changedFileChan = <<>>
  /\ changedFileChanClosed = FALSE
  /\ runs = <<>>
  /\ IdleAux

\* NewDB: on an error ProcessFilesForIncrementalScan returns it, and Start
\* returns
OpenDiff ==
  /\ ipc = "open"
  /\ \E ok \in BOOLEAN :
       IF ok THEN ipc' = "warm" /\ UNCHANGED startResult
       ELSE ipc' = "failed" /\ startResult' = StartResult(TRUE, TRUE, FALSE)
  /\ UNCHANGED << collisions, filter, bpc, bcur, newFilesChan, newFilesChanClosed,
                  candidateChan, candidateChanClosed, cpc, newFiles, tables, tempTableName,
                  newFileChan, newFileChanClosed, changedFileChan, changedFileChanClosed,
                  runs >>
  /\ UNCHANGED << input, batchSize, buffer, totalSaved, saving, saves, file_entries,
                  received, results, resultsClosed >>
  /\ UNCHANGED << listVars, delivered, expired, fullOnly, auxVars >>

\* bloomPreFilter up to its waits: the filter is warmed with the paths of
\* file_entries and the two goroutines are started; rows.Next() on the nil
\* rows of a failed query panics
Warm ==
  /\ ipc = "warm"
  /\ \E ok \in BOOLEAN :
       IF ok
       THEN /\ filter' = Paths(file_entries) \cup collisions
            /\ bpc' = "recv"
            /\ cpc' = "recv"
            /\ ipc' = "bloom"
            /\ UNCHANGED startResult
       ELSE /\ ipc' = "panicked"
            /\ startResult' = StartResult(TRUE, FALSE, TRUE)
            /\ UNCHANGED << filter, bpc, cpc >>
  /\ UNCHANGED << collisions, bcur, newFilesChan, newFilesChanClosed, candidateChan,
                  candidateChanClosed, newFiles, tables, tempTableName, newFileChan,
                  newFileChanClosed, changedFileChan, changedFileChanClosed, runs >>
  /\ UNCHANGED << input, batchSize, buffer, totalSaved, saving, saves, file_entries,
                  received, results, resultsClosed >>
  /\ UNCHANGED << listVars, delivered, expired, fullOnly, auxVars >>

\* for item := range scannedChan; filter.TestString(item.Key())
BloomRecv ==
  /\ bpc = "recv"
  /\ results # <<>>
  /\ bcur' = Head(results)
  /\ results' = Tail(results)
  /\ received' = Append(received, Head(results))
  /\ bpc' = IF TestString(filter, Key(Head(results))) THEN "cand" ELSE "new"
  /\ UNCHANGED << ipc, collisions, filter, newFilesChan, newFilesChanClosed, candidateChan,
                  candidateChanClosed, cpc, newFiles, tables, tempTableName, newFileChan,
                  newFileChanClosed, changedFileChan, changedFileChanClosed, runs >>
  /\ UNCHANGED << input, batchSize, buffer, totalSaved, saving, saves, file_entries,
                  resultsClosed, startResult >>
  /\ UNCHANGED << listVars, delivered, expired, fullOnly, auxVars >>

\* newFilesChan <- item
BloomNew ==
  /\ bpc = "new"
  /\ Len(newFilesChan) < newFilesChanLen
  /\ newFilesChan' = Append(newFilesChan, bcur)
  /\ bpc' = "recv"
  /\ UNCHANGED << ipc, collisions, filter, bcur, newFilesChanClosed, candidateChan,
                  candidateChanClosed, cpc, newFiles, tables, tempTableName, newFileChan,
                  newFileChanClosed, changedFileChan, changedFileChanClosed, runs >>
  /\ UNCHANGED << input, batchSize, buffer, totalSaved, saving, saves, file_entries,
                  received, results, resultsClosed, startResult >>
  /\ UNCHANGED << listVars, delivered, expired, fullOnly, auxVars >>

\* candidateChan <- item: nothing receives from candidateChan before
\* bloomPreFilter has returned
BloomCand ==
  /\ bpc = "cand"
  /\ Len(candidateChan) < candidateChanLen
  /\ candidateChan' = Append(candidateChan, bcur)
  /\ bpc' = "recv"
  /\ UNCHANGED << ipc, collisions, filter, bcur, newFilesChan, newFilesChanClosed,
                  candidateChanClosed, cpc, newFiles, tables, tempTableName, newFileChan,
                  newFileChanClosed, changedFileChan, changedFileChanClosed, runs >>
  /\ UNCHANGED << input, batchSize, buffer, totalSaved, saving, saves, file_entries,
                  received, results, resultsClosed, startResult >>
  /\ UNCHANGED << listVars, delivered, expired, fullOnly, auxVars >>

\* scannedChan is closed and drained: close(newFilesChan), close(candidateChan)
BloomClose ==
  /\ bpc = "recv"
  /\ results = <<>>
  /\ resultsClosed
  /\ newFilesChanClosed' = TRUE
  /\ candidateChanClosed' = TRUE
  /\ bpc' = "done"
  /\ UNCHANGED << ipc, collisions, filter, bcur, newFilesChan, candidateChan, cpc, newFiles,
                  tables, tempTableName, newFileChan, newFileChanClosed, changedFileChan,
                  changedFileChanClosed, runs >>
  /\ UNCHANGED << input, batchSize, buffer, totalSaved, saving, saves, file_entries,
                  received, results, resultsClosed, startResult >>
  /\ UNCHANGED << listVars, delivered, expired, fullOnly, auxVars >>

\* for file := range newFilesChan { newFiles = append(newFiles, file) }
CollectRecv ==
  /\ cpc = "recv"
  /\ newFilesChan # <<>>
  /\ newFiles' = Append(newFiles, Head(newFilesChan))
  /\ newFilesChan' = Tail(newFilesChan)
  /\ UNCHANGED << ipc, collisions, filter, bpc, bcur, newFilesChanClosed, candidateChan,
                  candidateChanClosed, cpc, tables, tempTableName, newFileChan,
                  newFileChanClosed, changedFileChan, changedFileChanClosed, runs >>
  /\ UNCHANGED << input, batchSize, buffer, totalSaved, saving, saves, file_entries,
                  received, results, resultsClosed, startResult >>
  /\ UNCHANGED << listVars, delivered, expired, fullOnly, auxVars >>

\* newFilesChan is closed and drained
CollectExit ==
  /\ cpc = "recv"
  /\ newFilesChan = <<>>
  /\ newFilesChanClosed
  /\ cpc' = "done"
  /\ UNCHANGED << ipc, collisions, filter, bpc, bcur, newFilesChan, newFilesChanClosed,
                  candidateChan, candidateChanClosed, newFiles, tables, tempTableName,
                  newFileChan, newFileChanClosed, changedFileChan, changedFileChanClosed,
                  runs >>
  /\ UNCHANGED << input, batchSize, buffer, totalSaved, saving, saves, file_entries,
                  received, results, resultsClosed, startResult >>
  /\ UNCHANGED << listVars, delivered, expired, fullOnly, auxVars >>

\* wg.Wait(); collectWg.Wait(); return newFiles, candidateChan; then the name
\* of the temp table is drawn and CreateTable is called, its error ignored
BloomReturn ==
  /\ ipc = "bloom"
  /\ bpc = "done"
  /\ cpc = "done"
  /\ LET name == NewTableName(Len(runs) + 1)
     IN /\ tempTableName' = name
        /\ \E ok \in BOOLEAN :
             tables' = IF ok THEN [tables EXCEPT ![name].exists = TRUE] ELSE tables
  /\ buffer' = <<>>
  /\ totalSaved' = 0
  /\ ipc' = "load"
  /\ UNCHANGED << collisions, filter, bpc, bcur, newFilesChan, newFilesChanClosed,
                  candidateChan, candidateChanClosed, cpc, newFiles, newFileChan,
                  newFileChanClosed, changedFileChan, changedFileChanClosed, runs >>
  /\ UNCHANGED << input, batchSize, saving, saves, file_entries, received, results,
                  resultsClosed, startResult >>
  /\ UNCHANGED << listVars, delivered, expired, fullOnly, auxVars >>

\* loadCandidatesToTemp: for fileInfo := range candidateChan
LoadRecv ==
  /\ ipc = "load"
  /\ candidateChan # <<>>
  /\ candidateChan' = Tail(candidateChan)
  /\ buffer' = Append(buffer, Head(candidateChan))
  /\ IF BatchFull(Len(buffer'), batchSize)
     THEN ipc' = "save" /\ saving' = saving + 1
     ELSE UNCHANGED << ipc, saving >>
  /\ UNCHANGED << collisions, filter, bpc, bcur, newFilesChan, newFilesChanClosed,
                  candidateChanClosed, cpc, newFiles, tables, tempTableName, newFileChan,
                  newFileChanClosed, changedFileChan, changedFileChanClosed, runs >>
  /\ UNCHANGED << input, batchSize, totalSaved, saves, file_entries, received, results,
                  resultsClosed, startResult >>
  /\ UNCHANGED << listVars, delivered, expired, fullOnly, auxVars >>

\* SaveEntries(buffer, tableName) returns: the INSERT fails when the table
\* does not exist, and may fail otherwise
SaveTo(name, final) ==
  \E ok \in (IF name = 0 \/ tables[name].exists THEN BOOLEAN ELSE {FALSE}) :
    /\ IF name = 0
       THEN /\ file_entries' = SaveEntries(file_entries, buffer, ok)
            /\ UNCHANGED tables
       ELSE /\ tables' = [tables EXCEPT ![name].rows = SaveEntries(@, buffer, ok)]
            /\ UNCHANGED file_entries
    /\ saves' = Append(saves, [batch |-> buffer, ok |-> ok, final |-> final])
    /\ totalSaved' = SavedAfter(totalSaved, Len(buffer), ok)

\* SaveEntries returns in the loop of loadCandidatesToTemp
LoadSave ==
  /\ ipc = "save"
  /\ SaveTo(LoadTable(tempTableName), FALSE)
  /\ buffer' = <<>>
  /\ saving' = saving - 1
  /\ ipc' = "load"
  /\ UNCHANGED << collisions, filter, bpc, bcur, newFilesChan, newFilesChanClosed,
                  candidateChan, candidateChanClosed, cpc, newFiles, tempTableName,
                  newFileChan, newFileChanClosed, changedFileChan, changedFileChanClosed,
                  runs >>
  /\ UNCHANGED << input, batchSize, received, results, resultsClosed, startResult >>
  /\ UNCHANGED << listVars, delivered, expired, fullOnly, auxVars >>

\* candidateChan is closed and drained: SaveEntries is called for a residue
LoadDrained ==
  /\ ipc = "load"
  /\ candidateChan = <<>>
  /\ candidateChanClosed
  /\ IF Len(buffer) > 0
     THEN ipc' = "final" /\ saving' = saving + 1
     ELSE ipc' = "query" /\ UNCHANGED saving
  /\ UNCHANGED << collisions, filter, bpc, bcur, newFilesChan, newFilesChanClosed,
                  candidateChan, candidateChanClosed, cpc, newFiles, tables, tempTableName,
                  newFileChan, newFileChanClosed, changedFileChan, changedFileChanClosed,
                  runs >>
  /\ UNCHANGED << input, batchSize, buffer, totalSaved, saves, file_entries, received,
                  results, resultsClosed, startResult >>
  /\ UNCHANGED << listVars, delivered, expired, fullOnly, auxVars >>

\* SaveEntries returns for the residue
LoadFinal ==
  /\ ipc = "final"
  /\ SaveTo(LoadTable(tempTableName), TRUE)
  /\ saving' = saving - 1
  /\ ipc' = "query"
  /\ UNCHANGED << collisions, filter, bpc, bcur, newFilesChan, newFilesChanClosed,
                  candidateChan, candidateChanClosed, cpc, newFiles, tempTableName,
                  newFileChan, newFileChanClosed, changedFileChan, changedFileChanClosed,
                  runs >>
  /\ UNCHANGED << input, batchSize, buffer, received, results, resultsClosed,
                  startResult >>
  /\ UNCHANGED << listVars, delivered, expired, fullOnly, auxVars >>

\* a SaveEntries call of this run failed
SaveFailed == \E i \in 1..Len(saves) : ~saves[i].ok

\* the two queries (each yields no row when it fails), the two output
\* channels filled and closed, the return; Start returns after it
Classify ==
  /\ ipc = "query"
  /\ LET temp == tables[tempTableName]
     IN \E okNew, okChanged \in (IF temp.exists THEN BOOLEAN ELSE {FALSE}) :
          LET exactNewFiles ==
                IF okNew THEN QueryExactNewFiles(temp.rows, file_entries) ELSE <<>>
              changedFiles ==
                IF okChanged THEN QueryChangedFiles(temp.rows, file_entries) ELSE <<>>
              bloomNewFiles == [i \in 1..Len(newFiles) |-> ProcessFileInfo(newFiles[i])]
          IN /\ newFileChan' = bloomNewFiles \o exactNewFiles
             /\ changedFileChan' = changedFiles
             /\ runs' = Append(runs, [new |-> newFileChan', changed |-> changedFiles,
                                      queried |-> okNew /\ okChanged,
                                      faulted |-> ~okNew \/ ~okChanged \/ SaveFailed])
  /\ newFileChanClosed' = TRUE
  /\ changedFileChanClosed' = TRUE
  /\ ipc' = "returned"
  /\ startResult' = StartResult(TRUE, FALSE, FALSE)
  /\ UNCHANGED << collisions, filter, bpc, bcur, newFilesChan, newFilesChanClosed,
                  candidateChan, candidateChanClosed, cpc, newFiles, tables,
                  tempTableName >>
  /\ UNCHANGED << input, batchSize, buffer, totalSaved, saving, saves, file_entries,
                  received, results, resultsClosed >>
  /\ UNCHANGED << listVars, delivered, expired, fullOnly, auxVars >>

\* the command is run again with the same job id on the same tree: the job
\* directory exists, so the scan is incremental again
Restart ==
  /\ ipc = "returned"
  /\ Len(runs) < MaxRuns
  /\ input' = received
  /\ received' = <<>>
  /\ results' = <<>>
  /\ resultsClosed' = FALSE
  /\ buffer' = <<>>
  /\ totalSaved' = 0
  /\ saves' = <<>>
  /\ ipc' = "open"
  /\ startResult' = "running"
  /\ filter' = {}
  /\ bpc' = "off"
  /\ bcur' = <<>>
  /\ newFilesChan' = <<>>
  /\ newFilesChanClosed' = FALSE
  /\ candidateChan' = <<>>
  /\ candidateChanClosed' = FALSE
  /\ cpc' = "off"
  /\ newFiles' = <<>>
  /\ tempTableName' = 0
  /\ newFileChan' = <<>>
  /\ newFileChanClosed' = FALSE
  /\ changedFileChan' = <<>>
  /\ changedFileChanClosed' = FALSE
  /\ UNCHANGED << collisions, tables, runs, batchSize, saving, file_entries >>
  /\ UNCHANGED << listVars, delivered, expired, fullOnly, auxVars >>

NextDiff ==
  \/ Walk
  \/ WalkClose
  \/ OpenDiff
  \/ Warm
  \/ BloomRecv
  \/ BloomNew
  \/ BloomCand
  \/ BloomClose
  \/ CollectRecv
  \/ CollectExit
  \/ BloomReturn
  \/ LoadRecv
  \/ LoadSave
  \/ LoadDrained
  \/ LoadFinal
  \/ Classify
  \/ Restart

SpecDiff == InitDiff /\ [][NextDiff]_vars

\* every goroutine that can take a step eventually takes one; the state graph
\* has no cycle, so weak fairness of the next-state relation states it
FairSpecDiff == SpecDiff /\ WF_vars(NextDiff)

\* ------------------------------------------------------- walker properties
\* everything pushed onto the result stream so far, in stream order
Stream == delivered \o results

\* the admission rule as the design states it:
\* emit(e) <=> (M is empty \/ M(e)) /\ ~(X is non-empty /\ X(e))
Emits(o) ==
  \E now \in Clock :
    /\ (matchConditions.conditions = <<>> \/ IsSatisfied(matchConditions, o, now))
    /\ ~(excludeConditions.conditions # <<>> /\ IsSatisfied(excludeConditions, o, now))

Prefixes(k) == {SubSeq(k, 1, n) : n \in 0..Len(k)}

\* the directory k is within the depth cap (its children are at depth Len(k) + 1)
WithinCap(k) == depth = 0 \/ Len(k) + 1 <= depth

\* Storage.List succeeds for k and for every directory above it
ListedWell(k) == WithinCap(k) /\ Prefixes(k) \cap storage.fail = {}

\* the walk enumerates o: its directory is listed, and listed successfully
Enumerated(o) == ListedWell(ParentDir(o))

Terminated ==
  /\ pending = 0
  /\ dirsClosed
  /\ \A w \in Workers : wpc[w] \in {"off", "done"}
  /\ resultsClosed

Subdirs(tree, k) == {o \in Range(StorageList(tree, k)) : o.isDir}

\* C1: without depth cap and without List error, once the result stream is
\* closed it carries every admitted entry of the tree exactly once and nothing
\* else, whatever the interleaving of the workers.
C1_StreamIsAdmittedMultiset ==
  (resultsClosed /\ depth = 0 /\ storage.fail = {}) =>
     /\ Range(Stream) \subseteq AllEntries(storage.tree)
     /\ \A o \in AllEntries(storage.tree) :
          Count(Stream, o) = IF Emits(o) THEN 1 ELSE 0

C1_Witness ==
  /\ resultsClosed /\ depth = 0 /\ storage.fail = {}
  /\ concurrency = MaxConcurrency
  /\ storage.tree = KeysOfUniverse
  /\ Len(Stream) >= 3
  /\ \E o \in AllEntries(storage.tree) : ~Emits(o)

\* C2: under fair scheduling and a draining consumer the walk terminates: the
\* pending counter is back at zero, the directory queue is closed, every
\* worker has exited and the result stream is closed.
C2_WalkTerminates == <>Terminated

\* a terminated walk of a tree whose root has more subdirectories than the
\* directory queue holds
C2_Witness ==
  /\ Terminated
  /\ storage.fail = {}
  /\ Cardinality(Subdirs(storage.tree, <<>>)) > listDirQueueLen
  /\ \A o \in Subdirs(storage.tree, <<>>) : listCalls[Key(o)] = 1

\* C3: a step that enumerates a child e pushes e onto the result stream if and
\* only if (the match filter is empty or satisfied) and not (the exclude filter
\* is non-empty and satisfied); otherwise the stream is left as it was.
C3_AdmissionRule ==
  [][\A w \in Workers :
       (wpc[w] = "range" /\ queue[w] # <<>> /\ queue'[w] = Tail(queue[w])) =>
          LET e == Head(queue[w]).o IN
          /\ Emits(e) => Stream' = Append(Stream, e)
          /\ ~Emits(e) => Stream' = Stream]_vars

\* an entry the match filter accepts and the non-empty exclude filter matches
\* was enumerated and is not on the closed stream
C3_Witness ==
  /\ resultsClosed
  /\ matchConditions.conditions # <<>>
  /\ excludeConditions.conditions # <<>>
  /\ \E o \in AllEntries(storage.tree) :
       /\ Enumerated(o)
       /\ \A now \in Clock :
            IsSatisfied(matchConditions, o, now) /\ IsSatisfied(excludeConditions, o, now)
       /\ Count(Stream, o) = 0
  /\ Len(Stream) > 0

\* C4: a directory the admission rule rejects is not on the stream, yet it is
\* listed like any other directory and each of its children is on the closed
\* stream exactly when the rule admits that child.
C4_RejectedDirStillRecursed ==
  resultsClosed =>
    \A d \in AllEntries(storage.tree) :
      (d.isDir /\ Enumerated(d) /\ ~Emits(d)) =>
         /\ Count(Stream, d) = 0
         /\ WithinCap(Key(d)) => listCalls[Key(d)] = 1
         /\ ListedWell(Key(d)) =>
              \A c \in Range(StorageList(storage.tree, Key(d))) :
                Count(Stream, c) = IF Emits(c) THEN 1 ELSE 0

C4_Witness ==
  /\ resultsClosed
  /\ \E d \in AllEntries(storage.tree) :
       /\ d.isDir /\ Enumerated(d) /\ ~Emits(d)
       /\ Count(Stream, d) = 0
       /\ \E c \in Range(StorageList(storage.tree, Key(d))) : Count(Stream, c) = 1

\* C5: without List error the closed stream carries exactly the admitted
\* entries at depths 1..D when D > 0 (the children of the root being at depth
\* 1), and the admitted entries of every depth when D = 0.
C5_DepthCap ==
  (resultsClosed /\ storage.fail = {}) =>
     \A o \in AllEntries(storage.tree) :
       Count(Stream, o) =
         IF Emits(o) /\ (depth = 0 \/ EntryDepth(o) <= depth) THEN 1 ELSE 0

\* D = 1 on the full tree: direct children of the root only
C5_Witness ==
  /\ resultsClosed /\ storage.fail = {}
  /\ depth = 1
  /\ storage.tree = KeysOfUniverse
  /\ Len(Stream) > 0
  /\ \A i \in 1..Len(Stream) : EntryDepth(Stream[i]) = 1

\* what a finished walk leaves when some Storage.List calls failed
ListErrorOutcome ==
  /\ resultsClosed
  /\ pending = 0
  /\ \A o \in AllEntries(storage.tree) :
       Count(Stream, o) = IF Enumerated(o) /\ Emits(o) THEN 1 ELSE 0
  /\ \A k \in DirKeys :
       ((k = <<>> \/ \E o \in AllEntries(storage.tree) : Key(o) = k /\ Enumerated(o))
          /\ WithinCap(k)) => listCalls[k] = 1

\* C6: when Storage.List fails for a directory, the walk still ends with the
\* result stream closed and the pending counter at zero; the failed directory
\* contributed no entry and every other reachable directory was listed.
C6_ListErrorSkipsDirectory == (storage.fail # {}) ~> ListErrorOutcome

C6_Witness ==
  /\ ListErrorOutcome
  /\ storage.fail = {KA}
  /\ storage.tree = KeysOfUniverse
  /\ listCalls[KA] = 1
  /\ \A o \in Range(StorageList(storage.tree, KA)) : Count(Stream, o) = 0
  /\ listCalls[KC] = 1

\* C7: once the scan-wide deadline has passed, no further directory is listed.
C7_DeadlineStopsListing == [][expired => listCalls' = listCalls]_vars

\* ---------------------------------------------------- dispatcher properties
RECURSIVE Flatten(_)
\* the batches of a sequence of SaveEntries calls, concatenated
Flatten(calls) == IF calls = <<>> THEN <<>> ELSE Head(calls).batch \o Flatten(Tail(calls))

\* the Sink is enabled, its producer was initialised and the topic is non-empty
SinkConfigured ==
  kafkaConfig.Enabled /\ InitKafkaProducer(kafkaConfig) /\ kafkaConfig.Topic # ""

\* C8: every entry taken from the walker stream is put on the catalog
\* writer's channel exactly once and passed to Stats.Update exactly once; it is
\* put on the Sink channel exactly once when the Sink is configured (enabled,
\* producer initialised, topic non-empty) and never otherwise.
C8_DispatchOncePerEntry ==
  /\ \A e \in Range(dbEnq) \cup Range(updated) \cup Range(sinkEnq) : e \in Range(received)
  /\ \A e \in Range(received) :
       /\ Count(dbEnq, e) <= 1
       /\ Count(updated, e) <= 1
       /\ Count(sinkEnq, e) <= IF SinkConfigured THEN 1 ELSE 0
  /\ fpc \in {"recv", "done"} =>
       /\ dbEnq = received
       /\ updated = received
       /\ stats.fileCount + stats.dirCount = Len(received)
       /\ sinkEnq = IF SinkConfigured THEN received ELSE <<>>

C8_Witness ==
  /\ fpc = "done"
  /\ SinkConfigured
  /\ Len(received) >= 2
  /\ sinkEnq = received
  /\ dbEnq = received
  /\ updated = received

\* C9: with batch size B >= 1 the SaveEntries calls split the sequence of
\* entries arriving on dbChan in order: every call of the loop carries exactly
\* B entries, at most one call after the close carries a residue of 1..B-1
\* entries, no call is empty and at most one call is in progress.
C9_BatchesPartitionArrivals ==
  batchSize >= 1 =>
    /\ Flatten(saves) \o (IF dpc \in {"log", "done"} THEN <<>> ELSE buffer) \o dbChan = dbEnq
    /\ \A i \in 1..Len(saves) :
         /\ Len(saves[i].batch) >= 1
         /\ ~saves[i].final => Len(saves[i].batch) = batchSize
         /\ saves[i].final =>
              /\ Len(saves[i].batch) <= batchSize - 1
              /\ i = Len(saves)
              /\ dbChanClosed
    /\ saving <= 1
    /\ saving = 1 => Len(buffer) >= 1
    /\ dpc = "done" => Flatten(saves) = dbEnq

C9_Witness ==
  /\ dpc = "done"
  /\ batchSize = 2
  /\ Len(saves) = 2
  /\ ~saves[1].final /\ Len(saves[1].batch) = 2
  /\ saves[2].final /\ Len(saves[2].batch) = 1

RECURSIVE RowsOf(_)
\* the rows of the calls that succeeded, in call order
RowsOf(calls) ==
  IF calls = <<>> THEN <<>>
  ELSE (IF Head(calls).ok
        THEN [i \in 1..Len(Head(calls).batch) |-> ProcessFileInfo(Head(calls).batch[i])]
        ELSE <<>>) \o RowsOf(Tail(calls))

\* C10: a batch whose SaveEntries call fails leaves no row and is not saved
\* again; the writer goes on to save the entries that follow, and the total it
\* logs is the sum of the sizes of the batches whose call succeeded.
C10_FailedBatchDropped ==
  /\ file_entries = RowsOf(saves)
  /\ \A e \in Range(dbEnq) : Count(Flatten(saves), e) <= 1
  /\ totalSaved = Len(RowsOf(saves))
  /\ savedLog # -1 =>
       /\ savedLog = Len(RowsOf(saves))
       /\ Flatten(saves) = dbEnq

\* a failed batch followed by a saved one, and the total logged
C10_Witness ==
  /\ savedLog # -1
  /\ Len(saves) >= 2
  /\ ~saves[1].ok
  /\ saves[2].ok
  /\ savedLog = Len(saves[2].batch)
  /\ Len(file_entries) = savedLog

RECURSIVE Lost(_)
\* the number of entries of the batches whose SaveEntries call failed
Lost(calls) ==
  IF calls = <<>> THEN 0
  ELSE (IF Head(calls).ok THEN 0 ELSE Len(Head(calls).batch)) + Lost(Tail(calls))

\* C11: when the full scan has returned after at least one batch failed to
\* insert, the scan summary carries a line for the dropped entries whose
\* number is the number of entries of the failed batches.
C11_LostTallyReported ==
  (ppc = "returned" /\ Lost(saves) > 0) =>
    LET report == GenerateConsoleReportSummary(stats, file_entries)
    IN /\ "Dropped" \in DOMAIN report.lines
       /\ report.lines["Dropped"] = Lost(saves)

\* the send goroutines that acquired a permit and whose SendMessage call has
\* not returned
Sending == {t \in tasks : t.phase = "send"}

\* C12: the SendMessage calls in progress never outnumber the configured
\* Kafka concurrency: every send goroutine holds one permit of the pool from
\* before its send until after it, and the pool never holds more permits than
\* its size.
C12_SendsWithinConcurrency ==
  /\ Cardinality(Sending) <= kafkaConfig.Concurrency
  /\ Cardinality(tasks) = kafkaWorkerPool
  /\ kafkaWorkerPool <= kafkaConfig.Concurrency

\* the pool of two permits is exhausted by two sends in progress while the
\* coordinator waits for a permit for a third entry
C12_Witness ==
  /\ kafkaConfig.Concurrency = 2
  /\ Cardinality(Sending) = 2
  /\ kpc = "acquire"

\* the summary has been generated
Summarised == ppc \in {"returned", "panicked"}

\* C13: when the summary is generated the walker stream is closed and
\* drained, the dispatcher and the catalog writer have ended, every entry
\* received was handed to a SaveEntries call that returned, and every Sink
\* send that was enqueued has started and returned with its permit released.
C13_SummaryAfterQuiescence ==
  Summarised =>
    /\ input = <<>> /\ results = <<>> /\ resultsClosed
    /\ fpc = "done" /\ dpc = "done"
    /\ dbChan = <<>> /\ saving = 0
    /\ Flatten(saves) = received
    /\ kafkaChan = <<>> /\ kpc \in {"off", "done"}
    /\ tasks = {} /\ kafkaWorkerPool = 0
    /\ sent = Range(sinkEnq)

\* a returned scan that saved a batch and sent entries to the Sink
C13_Witness ==
  /\ ppc = "returned"
  /\ Len(received) >= 2
  /\ Len(saves) >= 1
  /\ Cardinality(sent) >= 2

\* the Sink is enabled and InitKafkaProducer returned an error
SinkInitFailed == kafkaConfig.Enabled /\ ~InitKafkaProducer(kafkaConfig)

\* C14: when the Sink is enabled and its initialisation fails there is no
\* Sink channel, coordinator or send, every entry received is still put on
\* the catalog writer's channel and counted in Stats, and the scan does not
\* end otherwise than by returning.
C14_SinkInitFailureDowngrades ==
  SinkInitFailed =>
    /\ ~kafkaProducer /\ kpc = "off" /\ kafkaWg = 0
    /\ kafkaChan = <<>> /\ sinkEnq = <<>> /\ tasks = {} /\ sent = {}
    /\ fpc \in {"recv", "done"} => (dbEnq = received /\ updated = received)
    /\ ppc # "panicked"

\* ----------------------------------------------------- diff engine properties
\* the incremental scan returned and none of its catalog operations failed
ReturnedClean == ipc = "returned" /\ ~Last(runs).faulted

\* the rows of the entries taken from the walker stream
ScannedRows == {ProcessFileInfo(e) : e \in Range(received)}

\* the rows the second query contributed to newFiles
ExactNew == SubSeq(newFileChan, Len(newFiles) + 1, Len(newFileChan))

\* C15: (when CreateTable, every bulk insert and both queries succeeded) the
\* closed newFiles stream holds the row of every scanned entry whose path is
\* not in file_entries exactly once and nothing else: no row of it has a path
\* of file_entries, every row is the row of a scanned entry, and the rows found
\* by the bloom filter and those found by the anti-join have no path in common.
C15_NewFilesExact ==
  ReturnedClean =>
    /\ newFileChanClosed
    /\ \A r \in ScannedRows :
         r.path \notin Paths(file_entries) => Count(newFileChan, r) = 1
    /\ \A i \in 1..Len(newFileChan) :
         /\ newFileChan[i].path \notin Paths(file_entries)
         /\ newFileChan[i] \in ScannedRows
         /\ \A j \in 1..Len(newFileChan) :
              newFileChan[j].path = newFileChan[i].path => j = i
    /\ {PathString(Key(newFiles[i])) : i \in 1..Len(newFiles)} \cap Paths(ExactNew) = {}

\* a clean run in which the bloom filter found a new entry, the anti-join
\* recovered a false positive and a scanned entry was known to the catalog
C15_Witness ==
  /\ ReturnedClean
  /\ newFiles # <<>>
  /\ ExactNew # <<>>
  /\ \E r \in ScannedRows : r.path \in Paths(file_entries)

\* the row of a scanned entry has a row of file_entries with its path and
\* another ctime or mtime
ChangedSince(r) ==
  \E i \in 1..Len(file_entries) :
    /\ file_entries[i].path = r.path
    /\ (file_entries[i].ctime # r.ctime \/ file_entries[i].mtime # r.mtime)

\* C16: (when CreateTable, every bulk insert and both queries succeeded) a
\* scanned entry is in the closed changedFiles stream exactly when
\* file_entries has a row with its path whose ctime or mtime differs, and
\* every row of changedFiles is the row of a scanned entry whose path is in
\* file_entries.
C16_ChangedFilesExact ==
  ReturnedClean =>
    /\ changedFileChanClosed
    /\ \A r \in ScannedRows : ChangedSince(r) <=> r \in Range(changedFileChan)
    /\ \A i \in 1..Len(changedFileChan) :
         /\ changedFileChan[i].path \in Paths(file_entries)
         /\ changedFileChan[i] \in ScannedRows

\* a clean run reporting two changed entries, one of them with the mtime of
\* its catalog row and another ctime
C16_Witness ==
  /\ ReturnedClean
  /\ Len(changedFileChan) >= 2
  /\ \E i \in 1..Len(changedFileChan), j \in 1..Len(file_entries) :
       /\ file_entries[j].path = changedFileChan[i].path
       /\ file_entries[j].mtime = changedFileChan[i].mtime
       /\ file_entries[j].ctime # changedFileChan[i].ctime

\* file_entries has a row with the path, ctime and mtime of the row
Unchanged(r) ==
  \E i \in 1..Len(file_entries) :
    /\ file_entries[i].path = r.path
    /\ file_entries[i].ctime = r.ctime
    /\ file_entries[i].mtime = r.mtime

\* the paths of the two output streams
Reported == Paths(newFileChan) \cup Paths(changedFileChan)

\* C17: when the incremental scan has returned, no scanned entry whose path,
\* ctime and mtime are those of its row of file_entries is in newFiles or
\* changedFiles, no path of file_entries that was not scanned is in either,
\* and when every scanned entry is unchanged both streams are empty.
C17_UnchangedInNeither ==
  ipc = "returned" =>
    /\ \A r \in ScannedRows : Unchanged(r) => r.path \notin Reported
    /\ \A p \in Paths(file_entries) : p \notin {r.path : r \in ScannedRows} => p \notin Reported
    /\ (\A r \in ScannedRows : Unchanged(r)) =>
         (newFileChan = <<>> /\ changedFileChan = <<>>)

\* the scan of an unmodified tree: its entries went through the temp table,
\* the catalog also holds a path that is gone, and nothing is reported
C17_Witness ==
  /\ ReturnedClean
  /\ Len(received) >= 2
  /\ \A r \in ScannedRows : Unchanged(r)
  /\ Len(tables[tempTableName].rows) = Len(received)
  /\ Paths(file_entries) \ {r.path : r \in ScannedRows} # {}
  /\ newFileChan = <<>> /\ changedFileChan = <<>>

\* C18: once the prefilter of an incremental scan runs, the scan eventually
\* returns with both output streams closed.
C18_DiffTerminates ==
  (ipc = "bloom") ~> (ipc = "returned" /\ newFileChanClosed /\ changedFileChanClosed)

\* the runs that returned without a failed catalog operation gave the same
\* two streams
RepeatSame ==
  \A i, j \in 1..Len(runs) :
    (~runs[i].faulted /\ ~runs[j].faulted) =>
      (runs[i].new = runs[j].new /\ runs[i].changed = runs[j].changed)

\* C19: no step of an incremental scan changes file_entries, and the
\* incremental scans of the same tree on the same catalog that met no failed
\* catalog operation yield the same newFiles and the same changedFiles.
C19_CatalogUntouched == [][file_entries' = file_entries /\ RepeatSame']_vars

\* two clean runs that wrote candidates to their temp tables and reported
\* new and changed entries
C19_Witness ==
  /\ Len(runs) = 2
  /\ ~runs[1].faulted /\ ~runs[2].faulted
  /\ runs[1].new # <<>> /\ runs[1].changed # <<>>
  /\ tables[1].rows # <<>> /\ tables[2].rows # <<>>

\* C20: when opening the catalog database failed, in a full scan or in an
\* incremental scan, Start has returned an error.
C20_OpenFailurePropagates ==
  (ppc = "failed" \/ ipc = "failed") => startResult = "error"

\* two sequences of rows hold the same rows the same number of times
SameRows(a, b) == \A x \in Range(a) \cup Range(b) : Count(a, x) = Count(b, x)

\* the full scan has ended and every SaveEntries call of it succeeded
ScanEndedClean ==
  /\ ppc \in {"returned", "panicked"}
  /\ \A i \in 1..Len(saves) : saves[i].ok

\* C21: a full scan run again on the same tree and filters leaves in
\* file_entries the same multiset of rows as the scan before it, whatever the
\* order of the walk and the batch size of either scan (scans none of whose
\* inserts failed)
C21_RescanSameCatalog ==
  ScanEndedClean =>
    \A i \in 1..Len(runs) :
      ~runs[i].faulted => SameRows(file_entries, runs[i].catalog)

\* a second scan ended with its rows in another order, inserted in another
\* number of batches
C21_Witness ==
  /\ ScanEndedClean
  /\ Len(runs) = 1
  /\ ~runs[1].faulted
  /\ Len(file_entries) >= 2
  /\ file_entries # runs[1].catalog
  /\ Len(saves) # runs[1].batches

RECURSIVE SumSize(_)
\* the sum of size over the entries of the finite set S
SumSize(S) ==
  IF S = {} THEN 0
  ELSE LET x == CHOOSE y \in S : TRUE IN x.size + SumSize(S \ {x})

\* every entry of the scanned tree was counted and the getters were read
Counted == arg # <<>> /\ arg.todo = {} /\ ret # <<>>

ExampleCounted == Counted /\ arg.tree = ExampleTree

\* C23 as stated: the example tree gives 4 files, 3 directories, the total
\* size of its four files, a maximal directory depth of 2 and an average name
\* length of 2
C23_ExampleTreeStats ==
  ExampleCounted =>
    /\ ret.GetFileCount = 4
    /\ ret.GetDirCount = 3
    /\ ret.GetTotalSize = 5 * 1024 * 1024 + 2048 + 100 + 10
    /\ ret.GetMaxDirDepth = 2
    /\ ret.GetAvgNameLength = 2

\* C23 amended: the average name length is 1, the quotient of the 7
\* characters of f1, f2, g1 and h by 4 files; the other four are as stated
C23_ExampleTreeStatsTruncated ==
  ExampleCounted =>
    /\ ret.GetFileCount = 4
    /\ ret.GetDirCount = 3
    /\ ret.GetTotalSize = 5 * 1024 * 1024 + 2048 + 100 + 10
    /\ ret.GetMaxDirDepth = 2
    /\ ret.GetAvgNameLength = 1

C23_Witness == ExampleCounted /\ stats.totalNameLength = 7 /\ stats.maxNameLength = 2

\* C24: the report of a scan that counted no file shows an average file size
\* of 0 and the scan returns normally
C24_ZeroFilesReportCompletes ==
  (ppc \in {"returned", "panicked"} /\ stats.fileCount = 0) =>
    LET report == GenerateConsoleReportSummary(stats, file_entries)
    IN /\ ppc = "returned"
       /\ ~report.panic
       /\ report.lines["Capacity Average"] = 0

\* q is the quotient of total by count, rounded toward zero
IsQuotient(q, total, count) == q * count <= total /\ total < (q + 1) * count

\* C25: after any sequence of Update calls GetAvgNameLength and GetAvgDirDepth
\* return the integer quotient of their total by fileCount, and 0 when
\* fileCount = 0
C25_AveragesAreQuotients ==
  ret # <<>> =>
    IF stats.fileCount = 0
    THEN ret.GetAvgNameLength = 0 /\ ret.GetAvgDirDepth = 0
    ELSE /\ IsQuotient(ret.GetAvgNameLength, stats.totalNameLength, stats.fileCount)
         /\ IsQuotient(ret.GetAvgDirDepth, stats.totalDirDepth, stats.fileCount)

\* the getters were read when neither total is a multiple of fileCount, the
\* name total being nearer to the next multiple
C25_Witness ==
  /\ ret # <<>>
  /\ stats.fileCount > 0
  /\ 2 * (stats.totalNameLength % stats.fileCount) > stats.fileCount
  /\ stats.totalDirDepth % stats.fileCount # 0

\* IsSatisfied was called on a compiled filter and has returned
Evaluated == arg # <<>> /\ arg.kind = "eval" /\ ret # <<>>

\* C26: IsSatisfied returns true exactly when every condition of the filter
\* matches the entry, returns false at the first condition that does not
\* (none after it is evaluated), and returns true for the empty filter
C26_IsSatisfiedIsConjunction ==
  Evaluated =>
    LET conds == arg.filter.conditions
        holds(i) == matchCondition(arg.fileInfo, conds[i], arg.clock)
    IN /\ ret.result = (\A i \in 1..Len(conds) : holds(i))
       /\ ret.result => ret.evaluated = Len(conds)
       /\ ~ret.result =>
            /\ ~holds(ret.evaluated)
            /\ \A i \in 1..(ret.evaluated - 1) : holds(i)
       /\ conds = <<>> => ret.result

\* a filter of several conditions was rejected at a condition that is not its
\* last, a later one matching
C26_Witness ==
  /\ Evaluated
  /\ ~ret.result
  /\ ret.evaluated < Len(arg.filter.conditions)
  /\ \E i \in (ret.evaluated + 1)..Len(arg.filter.conditions) :
       matchCondition(arg.fileInfo, arg.filter.conditions[i], arg.clock)

\* the filter is the single condition "modified <op> h"
ModifiedOnly(f, op) ==
  /\ Len(f.conditions) = 1
  /\ f.conditions[1].Property = "modified"
  /\ f.conditions[1].Operator = op

CompiledAndEvaluated(expr) == Evaluated /\ arg.expr = expr

RECURSIVE SqlLike(_, _)
\* the whole value matches the pattern, "%" standing for any sequence of
\* characters, "_" for one character, any other character for itself
SqlLike(pattern, value) ==
  IF pattern = <<>> THEN value = <<>>
  ELSE IF Head(pattern) = "%"
       THEN \/ SqlLike(Tail(pattern), value)
            \/ value # <<>> /\ SqlLike(pattern, Tail(value))
       ELSE /\ value # <<>>
            /\ (Head(pattern) = "_" \/ Head(pattern) = Head(value))
            /\ SqlLike(Tail(pattern), Tail(value))

\* C29: for every value and every pattern the like operator matches exactly
\* when the whole value matches the pattern under SQL wildcard semantics
C29_LikeIsSqlWildcard ==
  (arg # <<>> /\ arg.kind = "like" /\ ret # <<>>) =>
    (ret.matched <=> SqlLike(arg.pattern, arg.value))

\* C30: for every string V the expression name == 'V' compiles to a filter
\* of one condition that is satisfied exactly by the entries whose basename
\* equals V
C30_NameClauseKeepsValue ==
  (arg # <<>> /\ arg.kind \in {"compile", "eval"} /\ ret # <<>>) =>
    \A V \in arg.names :
      /\ ~ret.err
      /\ Len(arg.filter.conditions) = 1
      /\ ret.result <=> Base(Key(arg.fileInfo)) = V

\* ------------------------------------------------------- parser properties
\* the clause has no recognised operator, an unknown property, an invalid
\* size, an invalid duration, or lacks its property or its value
ClauseIsBad(c) ==
  \/ c.operator \notin {<<"=", "=">>, <<"!", "=">>, <<">">>, <<"<">>, <<">", "=">>, <<"<", "=">>, <<"i", "n">>, <<"l", "i", "k", "e">>}
  \/ c.property \notin {<<"n", "a", "m", "e">>, <<"t", "y", "p", "e">>, <<"p", "a", "t", "h">>, <<"s", "i", "z", "e">>, <<"m", "o", "d", "i", "f", "i", "e", "d">>}
  \/ c.property = <<"s", "i", "z", "e">> /\ c.value \notin {<<"1">>, <<"1", "K">>, <<"1", ".", "5">>}
  \/ c.property = <<"m", "o", "d", "i", "f", "i", "e", "d">> /\ c.value \notin {<<"1">>, <<"1", ".", "5">>}
  \/ c.property = <<>>
  \/ c.value = <<>>

\* C31: the compilation of an expression fails with an error and returns no
\* filter whenever one of its clauses has no recognised operator, an unknown
\* property, an invalid size, an invalid duration, or lacks a property or a
\* value
C31_BadClauseFailsCompilation ==
  (arg # <<>> /\ "clause" \in DOMAIN arg /\ ClauseIsBad(arg.clause)) =>
    /\ arg.kind = "compile"
    /\ ret # <<>> => ret.err

\* the operator is not one the type of the property admits, or the property
\* or the operator is unknown
Inadmissible(cond) ==
  \/ cond.Property \in {"name", "path", "type"} /\ cond.Operator \in {">", "<", ">=", "<="}
  \/ cond.Property \in {"size", "modified"} /\ cond.Operator \in {"in", "like"}
  \/ cond.Property \notin {"name", "path", "type", "size", "modified"}
  \/ cond.Operator \notin {"==", "!=", ">", "<", ">=", "<=", "in", "like"}

\* C32: a filter holding a condition whose operator its property's type does
\* not admit, or whose property or operator is unknown, is satisfied by no
\* entry
C32_InadmissibleConditionRejectsAll ==
  (arg # <<>> /\ arg.kind = "eval" /\ ret # <<>>) =>
    ((\E i \in 1..Len(arg.filter.conditions) : Inadmissible(arg.filter.conditions[i]))
       => ~ret.result)

\* size >= 1 and name > x was compiled, the entry passed the size condition
\* and the name condition rejected it
C32_Witness ==
  /\ arg # <<>>
  /\ "clause" \in DOMAIN arg
  /\ arg.kind = "eval"
  /\ ret # <<>>
  /\ Len(arg.filter.conditions) = 2
  /\ arg.filter.conditions[2] = Condition("name", ">", <<"x">>)
  /\ ret.evaluated = 2
  /\ ~ret.result

\* a decimal number: digits with at most one point
IsDecimal(s) ==
  /\ \A i \in 1..Len(s) : s[i] \in DOMAIN DigitValue \cup {"."}
  /\ \E i \in 1..Len(s) : s[i] \in DOMAIN DigitValue
  /\ Count(s, ".") <= 1

\* the n of the unit's 1024^n
UnitPower(unit) ==
  CASE unit \in {"k", "K"} -> 1
    [] unit \in {"m", "M"} -> 2
    [] unit \in {"g", "G"} -> 3
    [] unit \in {"t", "T"} -> 4

\* C33: parseSize maps a decimal number with an optional unit K, M, G or T
\* in either case to the number times 1024^n rounded toward zero, 10K to
\* 10240 and 1.5K to 1536, and rejects every other unit and shape
C33_ParseSizeScalesBy1024 ==
  (arg # <<>> /\ arg.kind = "size" /\ ret # <<>>) =>
    LET s == arg.sizeStr
        hasUnit == s # <<>> /\ Last(s) \in {"k", "K", "m", "M", "g", "G", "t", "T"}
        numeral == IF hasUnit THEN Front(s) ELSE s
        n == IF hasUnit THEN UnitPower(Last(s)) ELSE 0
        x == ParseFloat(numeral)
    IN /\ IF IsDecimal(numeral)
          THEN /\ ~ret.err
               /\ x.num = 0 => ret.value = 0
               /\ (n <= 3 /\ x.num \div 2 < Pow2(30 - 10 * n)) =>
                    ret.value = (x.num * Pow2(10 * n)) \div x.den
          ELSE ret.err
       /\ s = <<"1", "0", "K">> => ret.value = 10240
       /\ s = <<"1", ".", "5", "K">> => ret.value = 1536
       /\ s = <<"1", ".", "5", "g">> => ret.value = 1610612736
       /\ s = <<"0", ".", "0", "0", "1", "T">> => ret.value = 1099511627

\* parseSize has returned 1536 for 1.5K
C33_Witness ==
  /\ arg # <<>>
  /\ arg.kind = "size"
  /\ arg.sizeStr = <<"1", ".", "5", "K">>
  /\ ret # <<>>
  /\ ~ret.err
  /\ ret.value = 1536

\* ------------------------------------------------ walker queue properties
RECURSIVE SumLen(_)
\* the lengths of the sequences of S, added up
SumLen(S) ==
  IF S = {} THEN 0
  ELSE LET s == CHOOSE x \in S : TRUE IN Len(s) + SumLen(S \ {s})

\* the directories queued, waiting in an enqueueing goroutine, or being listed
Outstanding ==
  Len(dirs) + SumLen(senders) + Cardinality({w \in Workers : wpc[w] \in {"range", "release"}})

\* C34: after the root seed the pending counter equals the number of
\* directories queued, waiting to be enqueued or being listed; it is never
\* negative, it is zero only when no directory remains, the directory queue
\* is closed exactly then, never twice, and nothing is sent on it after the
\* close
C34_PendingCountsOutstanding ==
  /\ ~panicked
  /\ mainpc # "seed" =>
       /\ pending = Outstanding
       /\ pending >= 0
       /\ dirsClosed <=> pending = 0

\* a worker has raised the counter for the three subdirectories of the root
\* and not yet released its own unit; one subdirectory is queued, the others
\* wait in the enqueueing goroutine
C34_Witness ==
  /\ mainpc # "seed"
  /\ \E w \in Workers : wpc[w] = "release"
  /\ Len(dirs) = 1
  /\ SumLen(senders) = 2
  /\ pending = 4
  /\ ~dirsClosed

\* C35: every directory the walk enumerates is sent on the directory queue
\* exactly once and listed at most once, nothing else is sent on it, and
\* with a depth cap D > 0 the directories below the entries of depth D are
\* not sent on it
C35_DirectoriesEnqueuedOnce ==
  /\ \A k \in DirKeys : enqueued[k] <= 1 /\ listCalls[k] <= 1
  /\ \A k \in DirKeys \ {<<>>} :
       enqueued[k] = 1 =>
         \E d \in AllEntries(storage.tree) : d.isDir /\ Key(d) = k /\ Enumerated(d)
  /\ mainpc = "closed" =>
       \A d \in AllEntries(storage.tree) :
         (d.isDir /\ Enumerated(d)) => enqueued[Key(d)] = 1
  /\ depth > 0 => \A k \in DirKeys : Len(k) > depth => enqueued[k] = 0

\* a finished walk with D = 1: /a was sent on the directory queue and not
\* listed, /a/d was never sent
C35_Witness ==
  /\ mainpc = "closed"
  /\ depth = 1
  /\ storage.tree = KeysOfUniverse
  /\ storage.fail = {}
  /\ enqueued[KA] = 1
  /\ listCalls[KA] = 0
  /\ enqueued[KAD] = 0

\* the place of the entry in what Storage.List yields for its directory
PlaceInListing(o) ==
  CHOOSE i \in 1..Len(StorageList(storage.tree, ParentDir(o))) :
    StorageList(storage.tree, ParentDir(o))[i] = o

\* C36: the entries of one directory are on the result stream in the order
\* in which Storage.List yielded them, whatever the number of workers
C36_DirectoryOrderKept ==
  \A i, j \in 1..Len(Stream) :
    (i < j /\ ParentDir(Stream[i]) = ParentDir(Stream[j])) =>
       PlaceInListing(Stream[i]) < PlaceInListing(Stream[j])

\* two workers were listing /a and /b at once: the child of /b is on the
\* stream between the two children of /a
C36_Witness ==
  /\ concurrency = 2
  /\ \E i, j, k \in 1..Len(Stream) :
       /\ i < j /\ j < k
       /\ Key(Stream[i]) = KAX
       /\ Key(Stream[j]) = KBZ
       /\ Key(Stream[k]) = KAD

\* ------------------------------------------------- scan command properties
\* C37: over the invocations with one job id, a run is executed in
\* incremental mode only if an earlier run completed a full scan that
\* created and populated file_entries; a first run that fails before writing
\* the catalog does not make the next run incremental
C37_IncrementalOnlyAfterFullScan ==
  \A i \in 1..Len(ret) :
    (ret[i].incrementalScan /\ ret[i].result = "nil") =>
      \E j \in 1..(i - 1) :
        /\ ~ret[j].incrementalScan
        /\ ret[j].result = "nil"
        /\ ret[j].files > 0

\* ------------------------------------------------ Stats in the full scan
RECURSIVE StatsOf(_)
\* the Stats after one Update per entry of the sequence, one after the other
StatsOf(entries) ==
  IF entries = <<>> THEN NewStats ELSE Update(StatsOf(Front(entries)), Last(entries))

\* the largest number of S, 0 when there is none
Largest(S) == IF S = {} THEN 0 ELSE CHOOSE m \in S : \A x \in S : x <= m

\* the entries counted as files
CountedFiles == {o \in Range(updated) : ~o.isDir}

\* C38: in a full scan Stats.Update is run by the dispatcher loop alone, once
\* per entry received and one call after the other, and the summary reads the
\* Stats after the last Update: the maxNameLen and maxDirDepth it reports are
\* the maxima over the files counted
C38_StatsUpdatedByDispatcherOnly ==
  /\ Len(updated) <= Len(received)
  /\ updated = SubSeq(received, 1, Len(updated))
  /\ stats = StatsOf(updated)
  /\ Summarised =>
       /\ fpc = "done"
       /\ updated = received
       /\ stats.maxNameLength = Largest({Len(Base(Key(o))) : o \in CountedFiles})
       /\ stats.maxDirDepth = Largest({Len(Key(o)) - 1 : o \in CountedFiles})
       /\ LET report == GenerateConsoleReportSummary(stats, file_entries)
          IN ~report.panic =>
               /\ report.lines["Max"] = stats.maxNameLength
               /\ report.lines["Max dir depth"] = stats.maxDirDepth

\* the summary of a scan whose stream carried /a/d/y2 before /b/z: the file
\* with the longest name and the deepest directory was counted first
C38_Witness ==
  /\ ppc = "returned"
  /\ Len(received) = 2
  /\ Key(received[1]) = KADY
  /\ Key(received[2]) = KBZ
  /\ stats.fileCount = 2
  /\ stats.maxNameLength = 2
  /\ stats.maxDirDepth = 2

\* C39: whatever the walker stream, the batch size and the Kafka concurrency,
\* 0 included, a full scan whose Sink producer was initialised eventually
\* returns when every SaveEntries and every send returns
C39_FullScanReturns == kafkaProducer ~> (ppc = "returned")

\* C40: when the temp table was created and both queries succeeded, the
\* returned incremental scan reports every scanned entry whose path is not in
\* file_entries in newFiles and every scanned entry whose catalog row has
\* another ctime or mtime in changedFiles, whether or not a bulk insert of a
\* candidate batch into the temp table failed
C40_ReportedDespiteFailedInsert ==
  (ipc = "returned" /\ Last(runs).queried) =>
    /\ \A r \in ScannedRows :
         r.path \notin Paths(file_entries) => r \in Range(newFileChan)
    /\ \A r \in ScannedRows : ChangedSince(r) => r \in Range(changedFileChan)

====
